---- MODULE Spec2Model ----
(***************************************************************************)
(* Command-stream-to-native-submission translator of dawn_native:          *)
(*   src/dawn_native/vulkan/CommandBufferVk.cpp                            *)
(*   src/dawn_native/d3d12/CommandBufferD3D12.cpp                          *)
(*                                                                         *)
(* One action per command record.  A handler is a sequence of calls; it    *)
(* is written as a chain of operators over a record                        *)
(*     st = [init, tex, buf, out]                                          *)
(* holding the initialization flags, the tracked usage of textures and     *)
(* buffers and the native instructions emitted so far by the handler.      *)
(*                                                                         *)
(* Specifications (same handlers, different streams and resources):       *)
(*   Spec      recorder, streams of copies and compute passes over         *)
(*             textures with several subresources; the usage state of the  *)
(*             resources lives in objects outside this specification       *)
(*             (DOMAIN texState = {}), so transition calls are made but    *)
(*             produce no barrier                                          *)
(*   SpecPass  recorder, streams of render passes, same resources          *)
(*   SpecTrans recorder, every resource has a tracked usage state          *)
(*   SpecBind  the bind group trackers driven by the records of a pass     *)
(*             body                                                        *)
(*   SpecDraw  render passes with pipelines, vertex and index buffers      *)
(*   SpecStorage  compute passes over a storage buffer with tracked usage  *)
(*   SpecStream   the record loops: tags, inline data, pass counter,       *)
(*             bundles, end of stream, results of RecordCommands           *)
(*   SpecAccel the vulkan acceleration container records and the ray       *)
(*             tracing pass                                                *)
(*   SpecAttachments  d3d12 render passes with two colour attachments,     *)
(*             resolve targets and a depth/stencil attachment              *)
(*   SpecRoots d3d12 render and compute passes over one storage buffer     *)
(*   SpecHeaps the d3d12 bind group tracker over several recordings        *)
(*   SpecBundles  render passes that execute render bundles                *)
(*   SpecCompressed  vulkan copies between block-compressed textures       *)
(***************************************************************************)
EXTENDS Integers, Sequences, FiniteSets, TLC

VARIABLES
    backend,        \* "vulkan" | "d3d12": which CommandBuffer::RecordCommands runs
    useRenderPass,  \* d3d12: Toggle::UseD3D12RenderPass
    isInit,         \* [<<texture, mip, layer>> -> BOOLEAN] subresource initialization flags
    texState,       \* [texture -> usage] tracked usage (mLastUsage / last D3D12 state)
    bufState,       \* [buffer -> usage]
    ctx,            \* which record loop is consuming: "top" | "render" | "compute"
    lastCmd,        \* the record consumed by the last handler
    renderPass,     \* the BeginRenderPassCmd of the open render pass, as left by the handler
    nativePass,     \* the attachment description handed to the native begin-pass
    passReads,      \* textures the open pass reads (usage without OutputAttachment)
    emitted,        \* native instructions emitted by the last handler, in order
    mBindGroups,    \* BindGroupStateTracker (see the SpecBind part)
    mDynamicOffsetCounts,
    mDirtyBindGroups,
    mDirtyBindGroupsObjectChangedOrIsDynamic,
    mBindGroupLayoutsMask,
    mPipelineLayout,
    mLastAppliedPipelineLayout,
    mInCompute,
    heap,           \* ShaderVisibleDescriptorAllocator, the bind groups' allocations, the root tables
    validated,      \* what the frontend has seen set in the open pass
    lastPipeline,   \* RecordRenderPass: RenderPipeline* lastPipeline
    mLastAppliedRenderPipeline,  \* d3d12 VertexBufferTracker
    mStartSlot,
    mEndSlot,
    mD3D12BufferViews,
    mLastAppliedIndexFormat,     \* d3d12 IndexBufferTracker
    mD3D12BufferView,
    iaVertexBuffers,  \* the vertex buffers bound in the native command buffer, per slot
    iaIndexBuffer,    \* the index buffer bound in the native command buffer
    setSinceApply,    \* d3d12: the slots given to OnSetVertexBuffer since the last Apply
    returned,       \* RecordCommands: "recording" | "success" | "error" | "fatal"
    nextPassNumber, \* RecordCommands: size_t nextPassNumber
    passesOpened,   \* pass-opening records consumed so far (history)
    cursor,         \* mCommands: words the iterator has consumed
    recordEnd,      \* where the records consumed so far end in the stream (history)
    containers,     \* [container -> [built, updated]] RayTracingAccelerationContainer state
    hasBottomLevelContainerBuild,   \* vulkan RecordCommands locals
    hasBottomLevelContainerUpdate,
    validationError,    \* message of the validation error a container arm returned
    bottomLevelPending, \* a bottom-level build or update of this recording has no
                        \* memory barrier after it yet (history)
    debugMarker,    \* vulkan: GetDeviceInfo().debugMarker; d3d12: IsPIXEventRuntimeLoaded()
    useTemporaryBuffer, \* Toggle::UseTemporaryBufferInCompressedTextureToTextureCopy
    bundlesLeft,    \* ExecuteBundles: bundles still to replay, the open one included
    executing,      \* ExecuteBundles: the bundles of the record being handled, in order
    bundleIter,     \* per bundle, the records its CommandIterator has handed out
    replayed        \* bundle records handled for the ExecuteBundles in progress (history)

recVars  == <<backend, useRenderPass, isInit, texState, bufState, ctx, lastCmd,
              renderPass, nativePass, passReads>>
bindVars == <<mBindGroups, mDynamicOffsetCounts, mDirtyBindGroups,
              mDirtyBindGroupsObjectChangedOrIsDynamic, mBindGroupLayoutsMask,
              mPipelineLayout, mLastAppliedPipelineLayout, mInCompute, heap, validated>>
drawVars == <<lastPipeline, mLastAppliedRenderPipeline, mStartSlot, mEndSlot,
              mD3D12BufferViews, mLastAppliedIndexFormat, mD3D12BufferView,
              iaVertexBuffers, iaIndexBuffer, setSinceApply>>
streamVars == <<returned, nextPassNumber, passesOpened, cursor, recordEnd, containers,
                hasBottomLevelContainerBuild, hasBottomLevelContainerUpdate,
                validationError, bottomLevelPending, debugMarker, useTemporaryBuffer,
                bundlesLeft,
                executing, bundleIter, replayed>>
vars     == <<recVars, bindVars, drawVars, emitted, streamVars>>

(***************************************************************************)
(* Resources.  The static description of every texture the inputs name.    *)
(***************************************************************************)
TextureTable ==
    [ texA  |-> [numMips |-> 2, arrayLayers |-> 1, width |-> 2, height |-> 2,
                 hasDepth |-> FALSE, hasStencil |-> FALSE, blockSize |-> 1],
      texB  |-> [numMips |-> 1, arrayLayers |-> 2, width |-> 1, height |-> 1,
                 hasDepth |-> FALSE, hasStencil |-> FALSE, blockSize |-> 1],
      texDS |-> [numMips |-> 1, arrayLayers |-> 1, width |-> 2, height |-> 2,
                 hasDepth |-> TRUE, hasStencil |-> TRUE, blockSize |-> 1],
      texD  |-> [numMips |-> 1, arrayLayers |-> 1, width |-> 2, height |-> 2,
                 hasDepth |-> TRUE, hasStencil |-> FALSE, blockSize |-> 1],
      texS  |-> [numMips |-> 1, arrayLayers |-> 1, width |-> 1, height |-> 1,
                 hasDepth |-> FALSE, hasStencil |-> FALSE, blockSize |-> 1],
      \* two textures of one block-compressed format, blocks of 4x4 texels
      texC4  |-> [numMips |-> 1, arrayLayers |-> 1, width |-> 4, height |-> 4,
                  hasDepth |-> FALSE, hasStencil |-> FALSE, blockSize |-> 4],
      texC12 |-> [numMips |-> 3, arrayLayers |-> 1, width |-> 12, height |-> 12,
                  hasDepth |-> FALSE, hasStencil |-> FALSE, blockSize |-> 4] ]

GetNumMipLevels(t) == TextureTable[t].numMips
GetArrayLayers(t)  == TextureTable[t].arrayLayers
HasDepth(t)        == TextureTable[t].hasDepth
HasStencil(t)      == TextureTable[t].hasStencil
IsColor(t)         == ~HasDepth(t) /\ ~HasStencil(t)
\* GetFormat().isCompressed; blockWidth and blockHeight are TextureTable[t].blockSize
IsCompressed(t)    == TextureTable[t].blockSize > 1

SubresourcesOf(t) ==
    { <<t, m, l>> : m \in 0..(GetNumMipLevels(t) - 1), l \in 0..(GetArrayLayers(t) - 1) }

AllSubresources(ts) == UNION { SubresourcesOf(t) : t \in ts }

\* The textures and buffers of the recording: those the state has an entry for.
Textures == { s[1] : s \in DOMAIN isInit }
Subresources == DOMAIN isInit

Max(a, b) == IF a >= b THEN a ELSE b

RECURSIVE ShiftRight(_, _)
ShiftRight(x, n) == IF n = 0 THEN x ELSE ShiftRight(x \div 2, n - 1)

\* TextureBase::GetMipLevelVirtualSize
GetMipLevelVirtualSize(t, mip) ==
    [width  |-> Max(1, ShiftRight(TextureTable[t].width, mip)),
     height |-> Max(1, ShiftRight(TextureTable[t].height, mip)),
     depth  |-> 1]

\* TextureBase::GetMipLevelPhysicalSize: the virtual size, rounded up to whole
\* blocks for a compressed format
GetMipLevelPhysicalSize(t, mip) ==
    LET extent == GetMipLevelVirtualSize(t, mip)
        block  == TextureTable[t].blockSize
    IN  [width  |-> ((extent.width + block - 1) \div block) * block,
         height |-> ((extent.height + block - 1) \div block) * block,
         depth  |-> extent.depth]

\* dawn_native::IsCompleteSubresourceCopiedTo
IsCompleteSubresourceCopiedTo(t, copySize, mipLevel) ==
    LET extent == GetMipLevelPhysicalSize(t, mipLevel)
    IN  /\ extent.depth = copySize.depth
        /\ extent.width = copySize.width
        /\ extent.height = copySize.height

(***************************************************************************)
(* Subresource initialization tracker (TextureBase / backend Texture).     *)
(***************************************************************************)
InRange(s, t, baseMip, levelCount, baseLayer, layerCount) ==
    /\ s[1] = t
    /\ s[2] >= baseMip /\ s[2] < baseMip + levelCount
    /\ s[3] >= baseLayer /\ s[3] < baseLayer + layerCount

IsSubresourceContentInitialized(init, t, baseMip, levelCount, baseLayer, layerCount) ==
    \A s \in DOMAIN init :
        InRange(s, t, baseMip, levelCount, baseLayer, layerCount) => init[s]

SetIsSubresourceContentInitialized(init, value, t, baseMip, levelCount, baseLayer, layerCount) ==
    [ s \in DOMAIN init |->
        IF InRange(s, t, baseMip, levelCount, baseLayer, layerCount) THEN value ELSE init[s] ]

Emit(st, instr) == [st EXCEPT !.out = Append(@, instr)]

\* The tracked usage of a resource, for the resources that have one.
UsageOf(f, r) == IF r \in DOMAIN f THEN f[r] ELSE {"Untracked"}

\* Texture::EnsureSubresourceContentInitialized: clears the range to zero when some
\* subresource of it is not initialized, and marks it initialized.  `site` names the
\* call site ("src", "dst", "pass").
EnsureSubresourceContentInitialized(st, t, baseMip, levelCount, baseLayer, layerCount, site) ==
    IF IsSubresourceContentInitialized(st.init, t, baseMip, levelCount, baseLayer, layerCount)
    THEN st
    ELSE [ Emit(st, [op |-> "ClearTexture", texture |-> t, baseMip |-> baseMip,
                     levelCount |-> levelCount, baseLayer |-> baseLayer,
                     layerCount |-> layerCount, value |-> 0, site |-> site])
           EXCEPT !.init = SetIsSubresourceContentInitialized(
                               st.init, TRUE, t, baseMip, levelCount, baseLayer, layerCount) ]

(***************************************************************************)
(* Transition manager (Buffer / Texture usage tracking).                   *)
(***************************************************************************)
\* Buffer::TransitionUsageNow, Buffer::TrackUsageAndTransitionNow
BufferTransitionUsageNow(st, b, usage) ==
    IF b \notin DOMAIN st.buf \/ st.buf[b] = usage
    THEN st
    ELSE [ Emit(st, [op |-> "Barrier", transitions |->
                        << [resource |-> b, before |-> st.buf[b], after |-> usage] >>])
           EXCEPT !.buf[b] = usage ]

\* Texture::TransitionUsageNow, Texture::TrackUsageAndTransitionNow
TextureTransitionUsageNow(st, t, usage) ==
    IF t \notin DOMAIN st.tex \/ st.tex[t] = usage
    THEN st
    ELSE [ Emit(st, [op |-> "Barrier", transitions |->
                        << [resource |-> t, before |-> st.tex[t], after |-> usage] >>])
           EXCEPT !.tex[t] = usage ]

(***************************************************************************)
(* Top-level copy records (CommandBuffer::RecordCommands).                 *)
(* A copy record: source/destination name a buffer or a texture            *)
(* subresource, copySize is the Extent3D of the copy.                      *)
(***************************************************************************)
St == [init |-> isInit, tex |-> texState, buf |-> bufState, out |-> << >>]

SubresourceOf(tc) == <<tc.texture, tc.mipLevel, tc.arrayLayer>>

\* vulkan, case Command::CopyBufferToBuffer
VkCopyBufferToBuffer(st, copy) ==
    LET s1 == BufferTransitionUsageNow(st, copy.source, {"CopySrc"})
        s2 == BufferTransitionUsageNow(s1, copy.destination, {"CopyDst"})
    IN  Emit(s2, [op |-> "CmdCopyBuffer", src |-> copy.source, dst |-> copy.destination,
                  srcState |-> UsageOf(s2.buf, copy.source),
                  dstState |-> UsageOf(s2.buf, copy.destination)])

\* d3d12, case Command::CopyBufferToBuffer
D3D12CopyBufferToBuffer(st, copy) ==
    LET s1 == BufferTransitionUsageNow(st, copy.source, {"CopySrc"})
        s2 == BufferTransitionUsageNow(s1, copy.destination, {"CopyDst"})
    IN  Emit(s2, [op |-> "CopyBufferRegion", src |-> copy.source, dst |-> copy.destination,
                  srcState |-> UsageOf(s2.buf, copy.source),
                  dstState |-> UsageOf(s2.buf, copy.destination)])

\* Faulty variant of PrepareCopyDestination: the destination is ensured
\* initialized whatever the extent of the copy.
PrepareCopyDestination_AlwaysEnsure(st, dst, copySize) ==
    EnsureSubresourceContentInitialized(
        st, dst.texture, dst.mipLevel, 1, dst.arrayLayer, 1, "dst")

\* The destination of a texture copy: a copy that covers the whole subresource only
\* marks it initialized, any other copy ensures it is initialized first.
PrepareCopyDestination(st, dst, copySize) ==
    IF IsCompleteSubresourceCopiedTo(dst.texture, copySize, dst.mipLevel)
    THEN [st EXCEPT !.init = SetIsSubresourceContentInitialized(
                                 st.init, TRUE, dst.texture, dst.mipLevel, 1, dst.arrayLayer, 1)]
    ELSE EnsureSubresourceContentInitialized(
             st, dst.texture, dst.mipLevel, 1, dst.arrayLayer, 1, "dst")

\* vulkan, case Command::CopyBufferToTexture
VkCopyBufferToTexture(st, copy) ==
    LET dst == copy.destination
        s1 == PrepareCopyDestination(st, dst, copy.copySize)
        s2 == BufferTransitionUsageNow(s1, copy.source.buffer, {"CopySrc"})
        s3 == TextureTransitionUsageNow(s2, dst.texture, {"CopyDst"})
    IN  Emit(s3, [op |-> "CmdCopyBufferToImage", src |-> copy.source.buffer, dst |-> dst,
                  copySize |-> copy.copySize,
                  srcState |-> UsageOf(s3.buf, copy.source.buffer),
                  dstState |-> UsageOf(s3.tex, dst.texture)])

\* d3d12, case Command::CopyBufferToTexture
D3D12CopyBufferToTexture(st, copy) ==
    LET dst == copy.destination
        s1 == PrepareCopyDestination(st, dst, copy.copySize)
        s2 == BufferTransitionUsageNow(s1, copy.source.buffer, {"CopySrc"})
        s3 == TextureTransitionUsageNow(s2, dst.texture, {"CopyDst"})
    IN  Emit(s3, [op |-> "CopyTextureRegion", src |-> copy.source.buffer, dst |-> dst,
                  copySize |-> copy.copySize,
                  srcState |-> UsageOf(s3.buf, copy.source.buffer),
                  dstState |-> UsageOf(s3.tex, dst.texture)])

\* Faulty variant of VkCopyTextureToBuffer: the source is copied as it is.
VkCopyTextureToBuffer_NoEnsure(st, copy) ==
    LET src == copy.source
        s2 == TextureTransitionUsageNow(st, src.texture, {"CopySrc"})
        s3 == BufferTransitionUsageNow(s2, copy.destination.buffer, {"CopyDst"})
    IN  Emit(s3, [op |-> "CmdCopyImageToBuffer", src |-> src, dst |-> copy.destination.buffer,
                  copySize |-> copy.copySize, srcInit |-> s3.init[SubresourceOf(src)],
                  srcState |-> UsageOf(s3.tex, src.texture),
                  dstState |-> UsageOf(s3.buf, copy.destination.buffer)])

\* vulkan, case Command::CopyTextureToBuffer
VkCopyTextureToBuffer(st, copy) ==
    LET src == copy.source
        s1 == EnsureSubresourceContentInitialized(
                  st, src.texture, src.mipLevel, 1, src.arrayLayer, 1, "src")
        s2 == TextureTransitionUsageNow(s1, src.texture, {"CopySrc"})
        s3 == BufferTransitionUsageNow(s2, copy.destination.buffer, {"CopyDst"})
    IN  Emit(s3, [op |-> "CmdCopyImageToBuffer", src |-> src, dst |-> copy.destination.buffer,
                  copySize |-> copy.copySize, srcInit |-> s3.init[SubresourceOf(src)],
                  srcState |-> UsageOf(s3.tex, src.texture),
                  dstState |-> UsageOf(s3.buf, copy.destination.buffer)])

\* d3d12, case Command::CopyTextureToBuffer
D3D12CopyTextureToBuffer(st, copy) ==
    LET src == copy.source
        s1 == EnsureSubresourceContentInitialized(
                  st, src.texture, src.mipLevel, 1, src.arrayLayer, 1, "src")
        s2 == TextureTransitionUsageNow(s1, src.texture, {"CopySrc"})
        s3 == BufferTransitionUsageNow(s2, copy.destination.buffer, {"CopyDst"})
    IN  Emit(s3, [op |-> "CopyTextureRegion", src |-> src, dst |-> copy.destination.buffer,
                  copySize |-> copy.copySize, srcInit |-> s3.init[SubresourceOf(src)],
                  srcState |-> UsageOf(s3.tex, src.texture),
                  dstState |-> UsageOf(s3.buf, copy.destination.buffer)])

\* The part source and destination handling that both backends share in
\* case Command::CopyTextureToTexture, up to the transitions.
PrepareTextureToTexture(st, copy) ==
    LET src == copy.source
        dst == copy.destination
        s1 == EnsureSubresourceContentInitialized(
                  st, src.texture, src.mipLevel, 1, src.arrayLayer, 1, "src")
        s2 == PrepareCopyDestination(s1, dst, copy.copySize)
        s3 == TextureTransitionUsageNow(s2, src.texture, {"CopySrc"})
    IN  TextureTransitionUsageNow(s3, dst.texture, {"CopyDst"})

\* vulkan ComputeTextureCopyExtent (UtilsVulkan), for a copy at origin (0, 0, 0):
\* the copy size, cut to the virtual size of the subresource where it exceeds it
ComputeTextureCopyExtent(textureCopy, copySize) ==
    LET virtualSizeAtLevel ==
            GetMipLevelVirtualSize(textureCopy.texture, textureCopy.mipLevel)
    IN  [width  |-> IF copySize.width > virtualSizeAtLevel.width
                    THEN virtualSizeAtLevel.width ELSE copySize.width,
         height |-> IF copySize.height > virtualSizeAtLevel.height
                    THEN virtualSizeAtLevel.height ELSE copySize.height,
         depth  |-> copySize.depth]

\* vulkan HasSameTextureCopyExtent
HasSameTextureCopyExtent(srcCopy, dstCopy, copySize) ==
    LET imageExtentSrc == ComputeTextureCopyExtent(srcCopy, copySize)
        imageExtentDst == ComputeTextureCopyExtent(dstCopy, copySize)
    IN  /\ imageExtentSrc.width = imageExtentDst.width
        /\ imageExtentSrc.height = imageExtentDst.height
        /\ imageExtentSrc.depth = imageExtentDst.depth

\* vulkan ComputeImageCopyRegion: the extent of the region is the one of the
\* destination; `asserted` is the value of the condition of its ASSERT
ComputeImageCopyRegion(srcCopy, dstCopy, copySize) ==
    [extent   |-> ComputeTextureCopyExtent(dstCopy, copySize),
     asserted |-> HasSameTextureCopyExtent(srcCopy, dstCopy, copySize)]

\* Buffer::TransitionUsageNow on the buffer RecordCopyImageWithTemporaryBuffer
\* creates: its usage is the local `usage`, no entry of bufState
TempBufferTransitionUsageNow(st, before, usage) ==
    Emit(st, [op |-> "Barrier", transitions |->
                 << [resource |-> "tempBuffer", before |-> before, after |-> usage] >>])

\* vulkan CommandBuffer::RecordCopyImageWithTemporaryBuffer
RecordCopyImageWithTemporaryBuffer(st, srcCopy, dstCopy, copySize) ==
    LET s1 == TempBufferTransitionUsageNow(st, {}, {"CopyDst"})
        s2 == Emit(s1, [op |-> "CmdCopyImageToBuffer", src |-> srcCopy,
                        dst |-> "tempBuffer", copySize |-> copySize,
                        srcInit |-> s1.init[SubresourceOf(srcCopy)],
                        srcState |-> UsageOf(s1.tex, srcCopy.texture),
                        dstState |-> {"CopyDst"}])
        s3 == TempBufferTransitionUsageNow(s2, {"CopyDst"}, {"CopySrc"})
        s4 == Emit(s3, [op |-> "CmdCopyBufferToImage", src |-> "tempBuffer",
                        dst |-> dstCopy, copySize |-> copySize,
                        srcState |-> {"CopySrc"},
                        dstState |-> UsageOf(s3.tex, dstCopy.texture)])
    IN  Emit(s4, [op |-> "tempBuffers.emplace_back", buffer |-> "tempBuffer"])

\* vulkan, case Command::CopyTextureToTexture
VkCopyTextureToTexture(st, copy) ==
    LET s4 == PrepareTextureToTexture(st, copy)
        src == copy.source
        dst == copy.destination
        copyUsingTemporaryBuffer ==
            /\ useTemporaryBuffer
            /\ IsCompressed(src.texture)
            /\ ~HasSameTextureCopyExtent(src, dst, copy.copySize)
        region == ComputeImageCopyRegion(src, dst, copy.copySize)
    IN  IF ~copyUsingTemporaryBuffer
        THEN Emit(s4, [op |-> "CmdCopyImage", src |-> src, dst |-> dst,
                       copySize |-> copy.copySize,
                       extent |-> region.extent, asserted |-> region.asserted,
                       srcInit |-> s4.init[SubresourceOf(src)],
                       srcState |-> UsageOf(s4.tex, src.texture),
                       dstState |-> UsageOf(s4.tex, dst.texture)])
        ELSE RecordCopyImageWithTemporaryBuffer(s4, src, dst, copy.copySize)

\* d3d12 CanUseCopyResource
CanUseCopyResource(sourceNumMipLevels, srcSize, dstSize, copySize) ==
    /\ sourceNumMipLevels = 1
    /\ srcSize.width = dstSize.width /\ srcSize.height = dstSize.height
    /\ srcSize.depth = dstSize.depth
    /\ srcSize.width = copySize.width /\ srcSize.height = copySize.height
    /\ srcSize.depth = copySize.depth

\* d3d12, case Command::CopyTextureToTexture
D3D12CopyTextureToTexture(st, copy) ==
    LET s4 == PrepareTextureToTexture(st, copy)
        src == copy.source
        dst == copy.destination
    IN  Emit(s4, [op |-> IF CanUseCopyResource(GetNumMipLevels(src.texture),
                                               GetMipLevelPhysicalSize(src.texture, 0),
                                               GetMipLevelPhysicalSize(dst.texture, 0),
                                               copy.copySize)
                         THEN "CopyResource" ELSE "CopyTextureRegion",
                  src |-> src, dst |-> dst, copySize |-> copy.copySize,
                  srcInit |-> s4.init[SubresourceOf(src)],
                  srcState |-> UsageOf(s4.tex, src.texture),
                  dstState |-> UsageOf(s4.tex, dst.texture)])

(***************************************************************************)
(* Pass preparation: the barriers for the usage summary of a pass.         *)
(* usages = [buffers, bufferUsages, textures, textureUsages], sequences.   *)
(***************************************************************************)
RECURSIVE VkTransitionBuffers(_, _, _)
VkTransitionBuffers(st, usages, i) ==
    IF i > Len(usages.buffers) THEN st
    ELSE VkTransitionBuffers(
             BufferTransitionUsageNow(st, usages.buffers[i], usages.bufferUsages[i]),
             usages, i + 1)

\* Faulty variant of VkTransitionTexture: the texture is transitioned as it is.
VkTransitionTexture_NoClear(st, t, usage) == TextureTransitionUsageNow(st, t, usage)

\* One texture of TransitionForPass: clear it unless it is an output attachment,
\* then transition it.
VkTransitionTexture(st, t, usage) ==
    LET s1 == IF "OutputAttachment" \notin usage
              THEN EnsureSubresourceContentInitialized(
                       st, t, 0, GetNumMipLevels(t), 0, GetArrayLayers(t), "pass")
              ELSE st
    IN  TextureTransitionUsageNow(s1, t, usage)

RECURSIVE VkTransitionTextures(_, _, _)
VkTransitionTextures(st, usages, i) ==
    IF i > Len(usages.textures) THEN st
    ELSE VkTransitionTextures(
             VkTransitionTexture(st, usages.textures[i], usages.textureUsages[i]),
             usages, i + 1)

\* vulkan, lambda TransitionForPass
TransitionForPass(st, usages) ==
    VkTransitionTextures(VkTransitionBuffers(st, usages, 1), usages, 1)

\* d3d12 Buffer/Texture::TrackUsageAndGetResourceBarrier over an accumulator
\* acc = [st, barriers]: the barrier is returned, not emitted.
TrackUsageAndGetResourceBarrier(acc, kind, r, usage) ==
    LET f == IF kind = "buffer" THEN acc.st.buf ELSE acc.st.tex
    IN  IF r \notin DOMAIN f \/ f[r] = usage
        THEN acc
        ELSE [ st |-> IF kind = "buffer"
                      THEN [acc.st EXCEPT !.buf[r] = usage]
                      ELSE [acc.st EXCEPT !.tex[r] = usage],
               barriers |-> Append(acc.barriers,
                                   [resource |-> r, before |-> f[r], after |-> usage]) ]

\* Faulty variant of D3D12CollectBarrier: a barrier is pushed for every resource
\* of the pass.
D3D12CollectBarrier_Always(acc, kind, r, usage) ==
    LET f == IF kind = "buffer" THEN acc.st.buf ELSE acc.st.tex
    IN  [ st |-> IF kind = "buffer"
                 THEN [acc.st EXCEPT !.buf[r] = usage]
                 ELSE [acc.st EXCEPT !.tex[r] = usage],
          barriers |-> Append(acc.barriers,
                              [resource |-> r, before |-> f[r], after |-> usage]) ]

\* The push_back of PrepareResourcesForSubmission: a barrier is kept exactly when
\* TrackUsageAndGetResourceBarrier returned one.
D3D12CollectBarrier(acc, kind, r, usage) ==
    TrackUsageAndGetResourceBarrier(acc, kind, r, usage)

RECURSIVE D3D12BufferBarriers(_, _, _)
D3D12BufferBarriers(acc, usages, i) ==
    IF i > Len(usages.buffers) THEN acc
    ELSE D3D12BufferBarriers(
             D3D12CollectBarrier(acc, "buffer", usages.buffers[i], usages.bufferUsages[i]),
             usages, i + 1)

\* Faulty variant of D3D12EnsureTextures: every texture of the pass is ensured,
\* the output attachments too.
RECURSIVE D3D12EnsureTextures_EveryTexture(_, _, _)
D3D12EnsureTextures_EveryTexture(st, usages, i) ==
    IF i > Len(usages.textures) THEN st
    ELSE LET t == usages.textures[i]
         IN  D3D12EnsureTextures_EveryTexture(
                 EnsureSubresourceContentInitialized(
                     st, t, 0, GetNumMipLevels(t), 0, GetArrayLayers(t), "pass"),
                 usages, i + 1)

RECURSIVE D3D12EnsureTextures(_, _, _)
D3D12EnsureTextures(st, usages, i) ==
    IF i > Len(usages.textures) THEN st
    ELSE LET t == usages.textures[i]
         IN  D3D12EnsureTextures(
                 IF "OutputAttachment" \notin usages.textureUsages[i]
                 THEN EnsureSubresourceContentInitialized(
                          st, t, 0, GetNumMipLevels(t), 0, GetArrayLayers(t), "pass")
                 ELSE st,
                 usages, i + 1)

RECURSIVE D3D12TextureBarriers(_, _, _)
D3D12TextureBarriers(acc, usages, i) ==
    IF i > Len(usages.textures) THEN acc
    ELSE D3D12TextureBarriers(
             D3D12CollectBarrier(acc, "texture", usages.textures[i], usages.textureUsages[i]),
             usages, i + 1)

\* d3d12, lambda PrepareResourcesForSubmission (the state and the emission)
PrepareResourcesForSubmission(st, usages) ==
    LET a1 == D3D12BufferBarriers([st |-> st, barriers |-> << >>], usages, 1)
        a2 == [a1 EXCEPT !.st = D3D12EnsureTextures(a1.st, usages, 1)]
        a3 == D3D12TextureBarriers(a2, usages, 1)
    IN  IF Len(a3.barriers) > 0
        THEN Emit(a3.st, [op |-> "Barrier", transitions |-> a3.barriers])
        ELSE a3.st

\* d3d12, the value PrepareResourcesForSubmission returns (passHasUAV)
PassHasUAV(usages) ==
    \/ \E i \in 1..Len(usages.buffers) : "Storage" \in usages.bufferUsages[i]
    \/ \E i \in 1..Len(usages.textures) : "Storage" \in usages.textureUsages[i]

(***************************************************************************)
(* Render pass assembler.                                                  *)
(* A BeginRenderPassCmd:                                                   *)
(*   [colorAttachments : Seq([view, resolveTarget, loadOp, storeOp,        *)
(*                            clearColor]),                                *)
(*    depthStencil     : Seq([view, depthLoadOp, depthStoreOp, clearDepth, *)
(*                            stencilLoadOp, stencilStoreOp,               *)
(*                            clearStencil])   (empty: no attachment),     *)
(*    sampleCount]                                                         *)
(* A view is one subresource [texture, mipLevel, arrayLayer].              *)
(* StoreOp "Clear" is the discarding store operation.                      *)
(***************************************************************************)
NoView == [texture |-> "none", mipLevel |-> 0, arrayLayer |-> 0]

ViewInitialized(init, view) ==
    IsSubresourceContentInitialized(init, view.texture, view.mipLevel, 1, view.arrayLayer, 1)

MarkView(init, value, view) ==
    SetIsSubresourceContentInitialized(init, value, view.texture, view.mipLevel, 1,
                                       view.arrayLayer, 1)

\* Faulty variant of VkColorAttachment: the requested load operation is recorded
\* whatever the initialization flag says.
VkColorAttachment_NoUpgrade(acc, i) ==
    LET att == acc.cmd.colorAttachments[i]
        hasResolveTarget == att.resolveTarget # NoView
        init1 == IF hasResolveTarget THEN MarkView(acc.init, TRUE, att.resolveTarget)
                 ELSE acc.init
        init2 == IF att.storeOp = "Store" THEN MarkView(init1, TRUE, att.view)
                 ELSE MarkView(init1, FALSE, att.view)
    IN  [acc EXCEPT !.init = init2,
                    !.color = Append(@, [view |-> att.view, loadOp |-> att.loadOp,
                                         hasResolveTarget |-> hasResolveTarget,
                                         requestedLoadOp |-> att.loadOp,
                                         wasInit |-> ViewInitialized(acc.init, att.view)])]

\* Faulty variant of VkColorAttachment: the resolve target is not marked.
VkColorAttachment_NoResolveMark(acc, i) ==
    LET att == acc.cmd.colorAttachments[i]
        wasInit == ViewInitialized(acc.init, att.view)
        loadOp == IF att.loadOp = "Load" /\ ~wasInit THEN "Clear" ELSE att.loadOp
        init2 == IF att.storeOp = "Store" THEN MarkView(acc.init, TRUE, att.view)
                 ELSE MarkView(acc.init, FALSE, att.view)
    IN  [acc EXCEPT !.init = init2,
                    !.color = Append(@, [view |-> att.view, loadOp |-> loadOp,
                                         hasResolveTarget |-> att.resolveTarget # NoView,
                                         requestedLoadOp |-> att.loadOp,
                                         wasInit |-> wasInit])]

\* vulkan RecordBeginRenderPass, body of the loop over the colour attachments:
\* acc = [init, cmd, color, depthStencil]
VkColorAttachment(acc, i) ==
    LET att == acc.cmd.colorAttachments[i]
        hasResolveTarget == att.resolveTarget # NoView
        wasInit == ViewInitialized(acc.init, att.view)
        loadOp == IF att.loadOp = "Load" /\ ~wasInit THEN "Clear" ELSE att.loadOp
        init1 == IF hasResolveTarget THEN MarkView(acc.init, TRUE, att.resolveTarget)
                 ELSE acc.init
        init2 == IF att.storeOp = "Store" THEN MarkView(init1, TRUE, att.view)
                 ELSE MarkView(init1, FALSE, att.view)
    IN  [acc EXCEPT !.init = init2,
                    !.color = Append(@, [view |-> att.view, loadOp |-> loadOp,
                                         hasResolveTarget |-> hasResolveTarget,
                                         requestedLoadOp |-> att.loadOp,
                                         wasInit |-> wasInit])]

RECURSIVE VkColorAttachments(_, _)
VkColorAttachments(acc, i) ==
    IF i > Len(acc.cmd.colorAttachments) THEN acc
    ELSE VkColorAttachments(VkColorAttachment(acc, i), i + 1)

\* The upgrade of the depth and stencil load operations of an attachment whose
\* subresource is not initialized (the attachment info is changed in place).
UpgradeDepthStencilLoadOps(att) ==
    LET a1 == IF HasDepth(att.view.texture) /\ att.depthLoadOp = "Load"
              THEN [att EXCEPT !.clearDepth = 0, !.depthLoadOp = "Clear"]
              ELSE att
    IN  IF HasStencil(att.view.texture) /\ a1.stencilLoadOp = "Load"
        THEN [a1 EXCEPT !.clearStencil = 0, !.stencilLoadOp = "Clear"]
        ELSE a1

\* Faulty variant of DepthStencilStoreInit: one stored aspect is enough to mark
\* the subresource valid.
DepthStencilStoreInit_EitherStore(init, att) ==
    IF att.depthStoreOp = "Store" \/ att.stencilStoreOp = "Store"
    THEN MarkView(init, TRUE, att.view)
    ELSE MarkView(init, FALSE, att.view)

\* Faulty variant of DepthStencilStoreInit: the flag is only ever cleared.
DepthStencilStoreInit_NeverValid(init, att) ==
    IF att.depthStoreOp = "Clear" /\ att.stencilStoreOp = "Clear"
    THEN MarkView(init, FALSE, att.view)
    ELSE init

\* The initialization flag of a depth/stencil attachment after the pass.
DepthStencilStoreInit(init, att) ==
    IF att.depthStoreOp = "Store" /\ att.stencilStoreOp = "Store"
    THEN MarkView(init, TRUE, att.view)
    ELSE IF att.depthStoreOp = "Clear" /\ att.stencilStoreOp = "Clear"
         THEN MarkView(init, FALSE, att.view)
         ELSE init

\* vulkan RecordBeginRenderPass, the depth/stencil attachment
VkDepthStencilAttachment(acc) ==
    IF Len(acc.cmd.depthStencil) = 0 THEN acc
    ELSE LET att == acc.cmd.depthStencil[1]
             wasInit == ViewInitialized(acc.init, att.view)
             a1 == IF ~wasInit THEN UpgradeDepthStencilLoadOps(att) ELSE att
         IN  [acc EXCEPT !.cmd.depthStencil = << a1 >>,
                         !.init = DepthStencilStoreInit(acc.init, a1),
                         !.depthStencil = << [view |-> a1.view,
                                              depthLoadOp |-> a1.depthLoadOp,
                                              stencilLoadOp |-> a1.stencilLoadOp,
                                              requestedDepthLoadOp |-> att.depthLoadOp,
                                              requestedStencilLoadOp |-> att.stencilLoadOp,
                                              wasInit |-> wasInit] >>]

\* vulkan RecordBeginRenderPass, the clear values gathered with the framebuffer
\* attachments: they are read from the attachment infos of the command.
VkColorClearValue(att) == att.clearColor

VkClearValues(acc) ==
    [ color |-> [ i \in 1..Len(acc.color) |->
                    acc.color[i] @@
                    [ clearValue |-> VkColorClearValue(acc.cmd.colorAttachments[i]) ] ],
      depthStencil |-> [ i \in 1..Len(acc.depthStencil) |->
                    acc.depthStencil[i] @@
                    [ clearDepth |-> acc.cmd.depthStencil[i].clearDepth,
                      clearStencil |-> acc.cmd.depthStencil[i].clearStencil ] ] ]

\* Faulty variant of RecordBeginRenderPass: the framebuffer is never handed to
\* the fenced deleter.
RecordBeginRenderPass_NoDeferredDelete(st, cmd) ==
    LET a0 == [init |-> st.init, cmd |-> cmd, color |-> << >>, depthStencil |-> << >>]
        a2 == VkDepthStencilAttachment(VkColorAttachments(a0, 1))
        s1 == [st EXCEPT !.init = a2.init]
        s2 == Emit(s1, [op |-> "CreateFramebuffer"])
        s4 == Emit(s2, [op |-> "CmdBeginRenderPass"])
    IN  [st |-> s4, cmd |-> a2.cmd, native |-> VkClearValues(a2)]

\* vulkan RecordBeginRenderPass: [st, cmd, native]
RecordBeginRenderPass(st, cmd) ==
    LET a0 == [init |-> st.init, cmd |-> cmd, color |-> << >>, depthStencil |-> << >>]
        a1 == VkColorAttachments(a0, 1)
        a2 == VkDepthStencilAttachment(a1)
        s1 == [st EXCEPT !.init = a2.init]
        s2 == Emit(s1, [op |-> "CreateFramebuffer"])
        s3 == Emit(s2, [op |-> "DeleteWhenUnused", object |-> "framebuffer"])
        s4 == Emit(s3, [op |-> "CmdBeginRenderPass"])
    IN  [st |-> s4, cmd |-> a2.cmd, native |-> VkClearValues(a2)]

\* vulkan RecordBeginRenderPass where CreateFramebuffer fails: the attachments
\* are prepared, the function returns the error of CheckVkSuccess.
RecordBeginRenderPassError(st, cmd) ==
    LET a0 == [init |-> st.init, cmd |-> cmd, color |-> << >>, depthStencil |-> << >>]
        a2 == VkDepthStencilAttachment(VkColorAttachments(a0, 1))
    IN  Emit([st EXCEPT !.init = a2.init], [op |-> "CreateFramebuffer", failed |-> TRUE])

\* vulkan RecordRenderPass up to the record loop
VkRecordRenderPassBegin(st, cmd) ==
    LET r == RecordBeginRenderPass(st, cmd)
    IN  [r EXCEPT !.st = Emit(Emit(Emit(Emit(Emit(Emit(r.st,
                [op |-> "CmdSetLineWidth"]), [op |-> "CmdSetDepthBounds"]),
                [op |-> "CmdSetStencilReference"]), [op |-> "CmdSetBlendConstants"]),
                [op |-> "CmdSetViewport"]), [op |-> "CmdSetScissor"])]

(***************************************************************************)
(* d3d12 render pass.                                                      *)
(***************************************************************************)
\* dawn_native::LazyClearRenderPassAttachments, one colour attachment: the load
\* operation and the clear colour are changed in the attachment info.
LazyClearColorAttachment(acc, i) ==
    LET att == acc.cmd.colorAttachments[i]
        upgrade == att.loadOp = "Load" /\ ~ViewInitialized(acc.init, att.view)
        a1 == IF upgrade THEN [att EXCEPT !.loadOp = "Clear", !.clearColor = 0] ELSE att
        init1 == IF att.resolveTarget # NoView THEN MarkView(acc.init, TRUE, att.resolveTarget)
                 ELSE acc.init
        init2 == IF att.storeOp = "Store" THEN MarkView(init1, TRUE, att.view)
                 ELSE MarkView(init1, FALSE, att.view)
    IN  [acc EXCEPT !.init = init2, !.cmd.colorAttachments[i] = a1]

RECURSIVE LazyClearColorAttachments(_, _)
LazyClearColorAttachments(acc, i) ==
    IF i > Len(acc.cmd.colorAttachments) THEN acc
    ELSE LazyClearColorAttachments(LazyClearColorAttachment(acc, i), i + 1)

\* dawn_native::LazyClearRenderPassAttachments: acc = [init, cmd]
LazyClearRenderPassAttachments(init, cmd) ==
    LET a1 == LazyClearColorAttachments([init |-> init, cmd |-> cmd], 1)
    IN  IF Len(cmd.depthStencil) = 0 THEN a1
        ELSE LET att == cmd.depthStencil[1]
                 d1 == IF ~ViewInitialized(a1.init, att.view)
                       THEN UpgradeDepthStencilLoadOps(att) ELSE att
             IN  [a1 EXCEPT !.cmd.depthStencil = << d1 >>,
                            !.init = DepthStencilStoreInit(a1.init, d1)]

\* d3d12 SetupRenderPass, the transitions of the resolve targets
RECURSIVE SetupResolveTargets(_, _, _)
SetupResolveTargets(st, cmd, i) ==
    IF i > Len(cmd.colorAttachments) THEN st
    ELSE SetupResolveTargets(
             IF cmd.colorAttachments[i].resolveTarget # NoView
             THEN TextureTransitionUsageNow(
                      st, cmd.colorAttachments[i].resolveTarget.texture, {"ResolveDest"})
             ELSE st,
             cmd, i + 1)

\* d3d12 SetupRenderPass, what the RenderPassBuilder is given: the beginning access
\* of every attachment.  orig and initBefore are the command and the flags before
\* LazyClearRenderPassAttachments ran.
SetupRenderPass(cmd, orig, initBefore) ==
    [ color |-> [ i \in 1..Len(cmd.colorAttachments) |->
          [ view |-> cmd.colorAttachments[i].view,
            loadOp |-> cmd.colorAttachments[i].loadOp,
            clearValue |-> cmd.colorAttachments[i].clearColor,
            hasResolveTarget |-> cmd.colorAttachments[i].resolveTarget # NoView,
            requestedLoadOp |-> orig.colorAttachments[i].loadOp,
            wasInit |-> ViewInitialized(initBefore, orig.colorAttachments[i].view) ] ],
      depthStencil |-> [ i \in 1..Len(cmd.depthStencil) |->
          LET att == cmd.depthStencil[i]
          IN  [ view |-> att.view,
                depthLoadOp |-> IF HasDepth(att.view.texture)
                                THEN att.depthLoadOp ELSE "NoAccess",
                stencilLoadOp |-> IF HasStencil(att.view.texture)
                                  THEN att.stencilLoadOp ELSE "NoAccess",
                clearDepth |-> att.clearDepth,
                clearStencil |-> att.clearStencil,
                requestedDepthLoadOp |-> orig.depthStencil[i].depthLoadOp,
                requestedStencilLoadOp |-> orig.depthStencil[i].stencilLoadOp,
                wasInit |-> ViewInitialized(initBefore, att.view) ] ] ]

\* RenderPassBuilder::HasDepth
BuilderHasDepth(native) ==
    Len(native.depthStencil) > 0 /\ native.depthStencil[1].depthLoadOp # "NoAccess"

RECURSIVE EmulateColorClears(_, _, _)
EmulateColorClears(st, native, i) ==
    IF i > Len(native.color) THEN st
    ELSE EmulateColorClears(
             IF native.color[i].loadOp = "Clear"
             THEN Emit(st, [op |-> "ClearRenderTargetView", view |-> native.color[i].view,
                            value |-> native.color[i].clearValue])
             ELSE st,
             native, i + 1)

\* EmulateBeginRenderPass with one ClearDepthStencilView per aspect.
EmulateBeginRenderPass_SeparateClears(st, native) ==
    LET s1 == EmulateColorClears(st, native, 1)
        ds == native.depthStencil[1]
        s2 == IF BuilderHasDepth(native) /\ ds.depthLoadOp = "Clear"
              THEN Emit(s1, [op |-> "ClearDepthStencilView", view |-> ds.view,
                             clearFlags |-> {"DEPTH"}, depth |-> ds.clearDepth,
                             stencil |-> 0])
              ELSE s1
        s3 == IF BuilderHasDepth(native) /\ ds.stencilLoadOp = "Clear"
              THEN Emit(s2, [op |-> "ClearDepthStencilView", view |-> ds.view,
                             clearFlags |-> {"STENCIL"}, depth |-> 0,
                             stencil |-> ds.clearStencil])
              ELSE s2
    IN  Emit(s3, [op |-> "OMSetRenderTargets", numRTVs |-> Len(native.color),
                  hasDSV |-> BuilderHasDepth(native)])

\* d3d12 CommandBuffer::EmulateBeginRenderPass
EmulateBeginRenderPass(st, native) ==
    LET s1 == EmulateColorClears(st, native, 1)
        ds == native.depthStencil[1]
        clearFlags == IF BuilderHasDepth(native)
                      THEN (IF ds.depthLoadOp = "Clear" THEN {"DEPTH"} ELSE {}) \cup
                           (IF ds.stencilLoadOp = "Clear" THEN {"STENCIL"} ELSE {})
                      ELSE {}
        s2 == IF clearFlags # {}
              THEN Emit(s1, [op |-> "ClearDepthStencilView", view |-> ds.view,
                             clearFlags |-> clearFlags,
                             depth |-> IF "DEPTH" \in clearFlags THEN ds.clearDepth ELSE 0,
                             stencil |-> IF "STENCIL" \in clearFlags
                                         THEN ds.clearStencil ELSE 0])
              ELSE s1
    IN  Emit(s2, [op |-> "OMSetRenderTargets", numRTVs |-> Len(native.color),
                  hasDSV |-> BuilderHasDepth(native)])

\* d3d12, case Command::BeginRenderPass after PrepareResourcesForSubmission:
\* LazyClearRenderPassAttachments, then RecordRenderPass up to the record loop.
\* Gives [st, cmd, native].
D3D12RecordRenderPassBegin(st, orig, useNative) ==
    LET lazy == LazyClearRenderPassAttachments(st.init, orig)
        cmd == lazy.cmd
        s1 == [st EXCEPT !.init = lazy.init]
        s2 == SetupResolveTargets(s1, cmd, 1)
        native == SetupRenderPass(cmd, orig, st.init)
        s3 == IF useNative THEN Emit(s2, [op |-> "BeginRenderPass"])
              ELSE EmulateBeginRenderPass(s2, native)
        s4 == Emit(Emit(Emit(s3, [op |-> "RSSetViewports"]), [op |-> "RSSetScissorRects"]),
                   [op |-> "OMSetBlendFactor"])
    IN  [st |-> s4, cmd |-> cmd, native |-> native]

RECURSIVE ResolveColorAttachments(_, _, _)
ResolveColorAttachments(st, cmd, i) ==
    IF i > Len(cmd.colorAttachments) THEN st
    ELSE LET att == cmd.colorAttachments[i]
             s1 == TextureTransitionUsageNow(st, att.view.texture, {"ResolveSource"})
             s2 == TextureTransitionUsageNow(s1, att.resolveTarget.texture, {"ResolveDest"})
         IN  ResolveColorAttachments(
                 IF att.resolveTarget = NoView THEN st
                 ELSE Emit(s2, [op |-> "ResolveSubresource", src |-> att.view,
                                dst |-> att.resolveTarget]),
                 cmd, i + 1)

\* d3d12 ResolveMultisampledRenderPass
ResolveMultisampledRenderPass(st, cmd) == ResolveColorAttachments(st, cmd, 1)

\* D3D12EndRenderPass with the resolves also done by hand after a native pass.
D3D12EndRenderPass_NativeAlsoResolves(st, cmd, useNative) ==
    LET s1 == IF useNative THEN Emit(st, [op |-> "EndRenderPass"]) ELSE st
    IN  IF cmd.sampleCount > 1 THEN ResolveMultisampledRenderPass(s1, cmd) ELSE s1

\* d3d12 RecordRenderPass, case Command::EndRenderPass
D3D12EndRenderPass(st, cmd, useNative) ==
    IF useNative THEN Emit(st, [op |-> "EndRenderPass"])
    ELSE IF cmd.sampleCount > 1 THEN ResolveMultisampledRenderPass(st, cmd)
         ELSE st

\* vulkan RecordRenderPass, case Command::EndRenderPass
VkEndRenderPass(st) == Emit(st, [op |-> "CmdEndRenderPass"])

(***************************************************************************)
(* The records the command stream may hold next (the inputs).              *)
(***************************************************************************)
Buffers == IF DOMAIN bufState = {} THEN {"bufA"} ELSE DOMAIN bufState

ViewOf(s) == [texture |-> s[1], mipLevel |-> s[2], arrayLayer |-> s[3]]

ColorViews == { ViewOf(s) : s \in { x \in Subresources : IsColor(x[1]) } }
DepthStencilViews == { ViewOf(s) : s \in { x \in Subresources : ~IsColor(x[1]) } }

\* The copy sizes that fit a subresource.
CopySizesFor(tc) ==
    LET extent == GetMipLevelPhysicalSize(tc.texture, tc.mipLevel)
    IN  { [width |-> w, height |-> h, depth |-> 1] :
              w \in 1..extent.width, h \in 1..extent.height }

BufferToBufferCopies ==
    { [source |-> a, destination |-> b] : a \in Buffers, b \in Buffers }

BufferToTextureCopies ==
    UNION { { [source |-> [buffer |-> b], destination |-> v, copySize |-> e] :
                  b \in Buffers, e \in CopySizesFor(v) } : v \in ColorViews }

TextureToBufferCopies ==
    UNION { { [source |-> v, destination |-> [buffer |-> b], copySize |-> e] :
                  b \in Buffers, e \in CopySizesFor(v) } : v \in ColorViews }

TextureToTextureCopies ==
    UNION { { [source |-> v, destination |-> w, copySize |-> e] :
                  e \in CopySizesFor(v) \cap CopySizesFor(w) } :
            <<v, w>> \in { p \in ColorViews \X ColorViews : p[1] # p[2] } }

LoadOps == {"Load", "Clear"}
StoreOps == {"Store", "Clear"}
ClearValues == {0, 1}

\* A resolve target is a view of another texture, of the size of the attachment.
ResolveTargetsFor(v) ==
    { w \in ColorViews :
          /\ w.texture # v.texture
          /\ GetMipLevelPhysicalSize(w.texture, w.mipLevel)
                 = GetMipLevelPhysicalSize(v.texture, v.mipLevel) }

ColorAttachmentInfos ==
    UNION { { [view |-> v, resolveTarget |-> r, loadOp |-> l, storeOp |-> so, clearColor |-> c] :
                  r \in {NoView} \cup ResolveTargetsFor(v),
                  l \in LoadOps, so \in StoreOps, c \in ClearValues } : v \in ColorViews }

DepthStencilAttachmentInfos ==
    { [view |-> v, depthLoadOp |-> dl, depthStoreOp |-> dso, clearDepth |-> c,
       stencilLoadOp |-> sl, stencilStoreOp |-> sso, clearStencil |-> c] :
          v \in DepthStencilViews, dl \in LoadOps, dso \in StoreOps,
          sl \in LoadOps, sso \in StoreOps, c \in ClearValues }

\* A pass resolves only multisampled attachments.
SampleCountsFor(att) == IF att.resolveTarget # NoView THEN {4} ELSE {1}

BeginRenderPassCmds ==
    UNION { { [colorAttachments |-> << a >>, depthStencil |-> << >>, sampleCount |-> n] :
                  n \in SampleCountsFor(a) } : a \in ColorAttachmentInfos }
    \cup { [colorAttachments |-> << >>, depthStencil |-> << d >>, sampleCount |-> 1] :
               d \in DepthStencilAttachmentInfos }

NoRenderPass == [colorAttachments |-> << >>, depthStencil |-> << >>, sampleCount |-> 1]
NoNativePass == [color |-> << >>, depthStencil |-> << >>]

\* The textures a render pass writes: its attachments and resolve targets.
AttachmentTextures(cmd) ==
    { cmd.colorAttachments[i].view.texture : i \in 1..Len(cmd.colorAttachments) }
    \cup ({ cmd.colorAttachments[i].resolveTarget.texture :
                i \in 1..Len(cmd.colorAttachments) } \ {"none"})
    \cup { cmd.depthStencil[i].view.texture : i \in 1..Len(cmd.depthStencil) }

\* A fixed order to list resources in.
ResourceOrder == << "texA", "texB", "texDS", "texD", "texS", "bufA", "bufB" >>

RECURSIVE ListOf(_, _)
ListOf(set, i) ==
    IF i > Len(ResourceOrder) THEN << >>
    ELSE (IF ResourceOrder[i] \in set THEN << ResourceOrder[i] >> ELSE << >>)
         \o ListOf(set, i + 1)

\* The usage summary the frontend computed for a pass: the written textures as
\* output attachments, the read textures with the read usage, the buffers.
\* A texture is never both written and read in one pass.
PassResourceUsage(written, reads, readUsage, bufs, bufUsage) ==
    LET ts == ListOf(written \cup reads, 1)
        bs == ListOf(bufs, 1)
    IN  [ buffers |-> bs,
          bufferUsages |-> [ i \in 1..Len(bs) |-> bufUsage ],
          textures |-> ts,
          textureUsages |-> [ i \in 1..Len(ts) |->
                                IF ts[i] \in written THEN {"OutputAttachment"}
                                ELSE readUsage ] ]

\* At most one read texture per pass.
AtMostOne(set) == { {} } \cup { {x} : x \in set }

RenderPassUsages(cmd) ==
    { PassResourceUsage(AttachmentTextures(cmd), reads, {"Sampled"}, bufs, bu) :
          reads \in AtMostOne(Textures \ AttachmentTextures(cmd)),
          bufs \in SUBSET (DOMAIN bufState),
          bu \in { {"Storage"}, {"Uniform"} } }

ComputePassUsages ==
    { PassResourceUsage({}, reads, ru, bufs, bu) :
          reads \in AtMostOne(Textures), ru \in { {"Sampled"}, {"Storage"} },
          bufs \in SUBSET (DOMAIN bufState),
          bu \in { {"Storage"}, {"Uniform"} } }

ReadTextures(usages) ==
    { usages.textures[i] : i \in { j \in 1..Len(usages.textures) :
                                      "OutputAttachment" \notin usages.textureUsages[j] } }

(***************************************************************************)
(* d3d12 BindGroupStateTracker.                                            *)
(* The tracker state is threaded as a record                               *)
(*   tr = [groups, counts, dirty, dirtyDyn, mask, layout, last, inCompute, *)
(*         heap]                                                           *)
(* heap = [used, alloc, tables]: descriptors allocated in the bound heaps, *)
(* per bind group whether its descriptors are in the bound heaps           *)
(* ("current"), in heaps switched away ("stale") or nowhere ("none"), and  *)
(* per slot the same for the root descriptor table set on the command list.*)
(* Realizations are logged in the instruction list as "Populate" entries.  *)
(***************************************************************************)
Slots == {0, 1}
SlotOrder == << 0, 1 >>

\* Descriptors a shader-visible heap generation holds.
HeapSize == 3

\* The bind groups of the recording: descriptor counts of the layout, number of
\* dynamic offsets, the storage buffers that need a barrier in compute passes.
BindGroupTable ==
    [ G1 |-> [cbvUavSrvCount |-> 2, samplerCount |-> 0, dynamicOffsetCount |-> 0,
              storageBuffers |-> {"bufA"}],
      G2 |-> [cbvUavSrvCount |-> 0, samplerCount |-> 1, dynamicOffsetCount |-> 0,
              storageBuffers |-> {}],
      G3 |-> [cbvUavSrvCount |-> 1, samplerCount |-> 0, dynamicOffsetCount |-> 1,
              storageBuffers |-> {}] ]

BindGroups == DOMAIN BindGroupTable

\* The pipeline layouts of the recording: L1 and L2 use both bind group slots,
\* with the same bind group layout in slot 0; L0 uses none.
PipelineLayoutTable ==
    [ L0 |-> [bindGroupLayoutsMask |-> {}, bindGroupLayouts |-> << >>],
      L1 |-> [bindGroupLayoutsMask |-> {0, 1}, bindGroupLayouts |-> << "X", "Y" >>],
      L2 |-> [bindGroupLayoutsMask |-> {0, 1}, bindGroupLayouts |-> << "X", "Z" >>] ]

PipelineLayouts == DOMAIN PipelineLayoutTable

GetBindGroupLayoutsMask(layout) == PipelineLayoutTable[layout].bindGroupLayoutsMask

DescriptorCount(g) == BindGroupTable[g].cbvUavSrvCount + BindGroupTable[g].samplerCount

Tr == [ groups |-> mBindGroups, counts |-> mDynamicOffsetCounts,
        dirty |-> mDirtyBindGroups, dirtyDyn |-> mDirtyBindGroupsObjectChangedOrIsDynamic,
        mask |-> mBindGroupLayoutsMask, layout |-> mPipelineLayout,
        last |-> mLastAppliedPipelineLayout, inCompute |-> mInCompute, heap |-> heap ]

\* BindGroupTrackerBase::OnSetBindGroup: only a slot the pipeline layout uses is
\* dirtied.
OnSetBindGroup(tr, index, group, dynamicOffsetCount) ==
    LET changed == index \in tr.mask /\ tr.groups[index] # group
        dynamic == index \in tr.mask /\ dynamicOffsetCount > 0
    IN  [tr EXCEPT !.dirty = IF changed THEN @ \cup {index} ELSE @,
                   !.dirtyDyn = IF changed \/ dynamic THEN @ \cup {index} ELSE @,
                   !.groups[index] = group,
                   !.counts[index] = dynamicOffsetCount]

\* BindGroupTrackerBase<false, ...>::OnSetPipeline (no inheritance of bind groups)
OnSetPipeline(tr, layout) ==
    IF tr.last = layout
    THEN [tr EXCEPT !.layout = layout]
    ELSE [tr EXCEPT !.layout = layout,
                    !.mask = GetBindGroupLayoutsMask(layout),
                    !.dirty = GetBindGroupLayoutsMask(layout),
                    !.dirtyDyn = GetBindGroupLayoutsMask(layout)]

\* PipelineLayoutBase::InheritedGroupsMask: the slots of the longest common prefix
\* of the bind group layouts of the two pipeline layouts.
InheritedGroupsMask(layout, other) ==
    LET a == PipelineLayoutTable[layout].bindGroupLayouts
        b == PipelineLayoutTable[other].bindGroupLayouts
    IN  { i \in Slots : \A j \in 0..i : j + 1 <= Len(a) /\ j + 1 <= Len(b) /\ a[j + 1] = b[j + 1] }

\* BindGroupTrackerBase<true, ...>::OnSetPipeline (vulkan: the bind groups of the
\* slots inherited from the last applied layout stay as they are)
OnSetPipelineInherit(tr, layout) ==
    IF tr.last = layout
    THEN [tr EXCEPT !.layout = layout]
    ELSE LET mask == GetBindGroupLayoutsMask(layout)
             dirtied == IF tr.last = "null" THEN Slots
                        ELSE Slots \ InheritedGroupsMask(layout, tr.last)
         IN  IF tr.last = "null"
             THEN [tr EXCEPT !.layout = layout, !.mask = mask,
                             !.dirty = mask, !.dirtyDyn = mask]
             ELSE [tr EXCEPT !.layout = layout, !.mask = mask,
                             !.dirty = (@ \cup dirtied) \cap mask,
                             !.dirtyDyn = (@ \cup dirtied) \cap mask]

\* BindGroupTrackerBase::DidApply
DidApply(tr) ==
    [tr EXCEPT !.dirty = {}, !.dirtyDyn = {}, !.last = tr.layout]

\* BindGroup::Populate: [ok, heap].  Descriptors still in the bound heaps are
\* kept; otherwise they are allocated if the heaps have room.
Populate(h, g) ==
    IF h.alloc[g] = "current" \/ DescriptorCount(g) = 0
    THEN [ok |-> TRUE, heap |-> h]
    ELSE IF h.used + DescriptorCount(g) <= HeapSize
         THEN [ok |-> TRUE,
               heap |-> [h EXCEPT !.used = @ + DescriptorCount(g), !.alloc[g] = "current"]]
         ELSE [ok |-> FALSE, heap |-> h]

\* ShaderVisibleDescriptorAllocator::AllocateAndSwitchShaderVisibleHeaps: every
\* descriptor and every root table of the heaps switched away is stale.
AllocateAndSwitchShaderVisibleHeaps(h) ==
    [ used |-> 0,
      alloc |-> [ g \in DOMAIN h.alloc |-> IF h.alloc[g] = "none" THEN "none" ELSE "stale" ],
      tables |-> [ i \in DOMAIN h.tables |-> IF h.tables[i] = "none" THEN "none" ELSE "stale" ] ]

\* One Populate of Apply, logged: acc = [st, tr, ok]
PopulateSlot(acc, index) ==
    LET g == acc.tr.groups[index]
        r == Populate(acc.tr.heap, g)
    IN  [ st |-> Emit(acc.st, [op |-> "Populate", index |-> index, group |-> g, ok |-> r.ok]),
          tr |-> [acc.tr EXCEPT !.heap = r.heap],
          ok |-> r.ok ]

\* Apply, the loop over mDirtyBindGroups, left at the first failure
RECURSIVE PopulateDirty(_, _)
PopulateDirty(acc, k) ==
    IF k > Len(SlotOrder) \/ ~acc.ok THEN acc
    ELSE PopulateDirty(IF SlotOrder[k] \in acc.tr.dirty THEN PopulateSlot(acc, SlotOrder[k])
                       ELSE acc,
                       k + 1)

\* Apply, the loop over mBindGroupLayoutsMask after the heap switch
RECURSIVE PopulateAll(_, _)
PopulateAll(acc, k) ==
    IF k > Len(SlotOrder) THEN acc
    ELSE PopulateAll(IF SlotOrder[k] \in acc.tr.mask
                     THEN LET r == PopulateSlot(acc, SlotOrder[k])
                          IN  [r EXCEPT !.ok = acc.ok /\ r.ok]
                     ELSE acc,
                     k + 1)

\* Faulty variant of HeapSwitchAndRetry: after the switch only the bind groups
\* that were dirty are realized again.
HeapSwitchAndRetry_DirtyOnly(acc) ==
    LET s1 == Emit(acc.st, [op |-> "AllocateAndSwitchShaderVisibleHeaps"])
        t1 == [acc.tr EXCEPT !.heap = AllocateAndSwitchShaderVisibleHeaps(@)]
        s2 == Emit(s1, [op |-> "SetDescriptorHeaps"])
    IN  PopulateDirty([st |-> s2, tr |-> t1, ok |-> TRUE], 1)

\* HeapSwitchAndRetry that leaves the heaps switched away bound to the command
\* list.
HeapSwitchAndRetry_HeapsNotBound(acc) ==
    LET s1 == Emit(acc.st, [op |-> "AllocateAndSwitchShaderVisibleHeaps"])
        t1 == [acc.tr EXCEPT !.heap = AllocateAndSwitchShaderVisibleHeaps(@),
                             !.dirtyDyn = @ \cup acc.tr.mask,
                             !.dirty = @ \cup acc.tr.mask]
    IN  PopulateAll([st |-> s1, tr |-> t1, ok |-> TRUE], 1)

\* Apply, the branch taken when a Populate failed: switch the heaps, dirty every
\* slot of the layout, bind the heaps, realize every slot of the layout.
HeapSwitchAndRetry(acc) ==
    LET s1 == Emit(acc.st, [op |-> "AllocateAndSwitchShaderVisibleHeaps"])
        t1 == [acc.tr EXCEPT !.heap = AllocateAndSwitchShaderVisibleHeaps(@),
                             !.dirtyDyn = @ \cup acc.tr.mask,
                             !.dirty = @ \cup acc.tr.mask]
        s2 == Emit(s1, [op |-> "SetDescriptorHeaps"])
    IN  PopulateAll([st |-> s2, tr |-> t1, ok |-> TRUE], 1)

\* ApplyBindGroup that sets the root descriptors of the dynamic offsets only for
\* a slot of mDirtyBindGroups.
ApplyBindGroup_DynamicOnlyWhenDirty(acc, index) ==
    LET tr == acc.tr
        g == tr.groups[index]
        root == IF tr.inCompute THEN "Compute" ELSE "Graphics"
        s1 == IF tr.counts[index] > 0
              THEN Emit(acc.st, [op |-> "Set" \o root \o "RootConstantBufferView",
                                 index |-> index, group |-> g])
              ELSE acc.st
        s2 == IF BindGroupTable[g].cbvUavSrvCount > 0
              THEN Emit(s1, [op |-> "Set" \o root \o "RootDescriptorTable", index |-> index,
                             group |-> g, heapType |-> "CbvUavSrv",
                             descriptors |-> tr.heap.alloc[g]])
              ELSE s1
        s3 == IF BindGroupTable[g].samplerCount > 0
              THEN Emit(s2, [op |-> "Set" \o root \o "RootDescriptorTable", index |-> index,
                             group |-> g, heapType |-> "Sampler",
                             descriptors |-> tr.heap.alloc[g]])
              ELSE s2
    IN  IF index \notin tr.dirty
        THEN acc
        ELSE [acc EXCEPT !.st = s3,
                         !.tr.heap.tables[index] =
                             IF DescriptorCount(g) > 0 THEN tr.heap.alloc[g] ELSE @]

\* ApplyBindGroup: the root descriptors of the dynamic offsets, always; the
\* descriptor tables only if the slot is in mDirtyBindGroups.  acc = [st, tr, ok]
ApplyBindGroup(acc, index) ==
    LET tr == acc.tr
        g == tr.groups[index]
        root == IF tr.inCompute THEN "Compute" ELSE "Graphics"
        s1 == IF tr.counts[index] > 0
              THEN Emit(acc.st, [op |-> "Set" \o root \o "RootConstantBufferView",
                                 index |-> index, group |-> g])
              ELSE acc.st
        s2 == IF BindGroupTable[g].cbvUavSrvCount > 0
              THEN Emit(s1, [op |-> "Set" \o root \o "RootDescriptorTable", index |-> index,
                             group |-> g, heapType |-> "CbvUavSrv",
                             descriptors |-> tr.heap.alloc[g]])
              ELSE s1
        s3 == IF BindGroupTable[g].samplerCount > 0
              THEN Emit(s2, [op |-> "Set" \o root \o "RootDescriptorTable", index |-> index,
                             group |-> g, heapType |-> "Sampler",
                             descriptors |-> tr.heap.alloc[g]])
              ELSE s2
    IN  IF index \notin tr.dirty
        THEN [acc EXCEPT !.st = s1]
        ELSE [acc EXCEPT !.st = s3,
                         !.tr.heap.tables[index] =
                             IF DescriptorCount(g) > 0 THEN tr.heap.alloc[g] ELSE @]

\* The loop of Apply run over every slot of the layout instead of the slots of
\* mDirtyBindGroupsObjectChangedOrIsDynamic.
RECURSIVE ApplyBindGroups_EverySlot(_, _)
ApplyBindGroups_EverySlot(acc, k) ==
    IF k > Len(SlotOrder) THEN acc
    ELSE ApplyBindGroups_EverySlot(IF SlotOrder[k] \in acc.tr.mask
                                   THEN ApplyBindGroup(acc, SlotOrder[k]) ELSE acc,
                                   k + 1)

\* Apply, the loop over mDirtyBindGroupsObjectChangedOrIsDynamic
RECURSIVE ApplyBindGroups(_, _)
ApplyBindGroups(acc, k) ==
    IF k > Len(SlotOrder) THEN acc
    ELSE ApplyBindGroups(IF SlotOrder[k] \in acc.tr.dirtyDyn
                         THEN ApplyBindGroup(acc, SlotOrder[k]) ELSE acc,
                         k + 1)

\* Apply in a compute pass: the storage buffers of the slots of the layout are
\* transitioned to the Storage usage.
RECURSIVE TransitionStorageBuffers(_, _)
TransitionStorageBuffers(st, buffers) ==
    IF buffers = {} THEN st
    ELSE LET b == CHOOSE x \in buffers : TRUE
         IN  TransitionStorageBuffers(BufferTransitionUsageNow(st, b, {"Storage"}),
                                      buffers \ {b})

\* Faulty variant of StorageBuffersOf: only the slots flagged since the last
\* Apply.
StorageBuffersOf_DirtyOnly(tr) ==
    UNION { BindGroupTable[tr.groups[i]].storageBuffers :
                i \in { j \in tr.mask \cap (tr.dirty \cup tr.dirtyDyn) : tr.groups[j] # "null" } }

StorageBuffersOf(tr) ==
    UNION { BindGroupTable[tr.groups[i]].storageBuffers :
                i \in { j \in tr.mask : tr.groups[j] # "null" } }

\* Apply that hands the exhaustion of the heaps to its caller as an error.
Apply_ReturnsExhaustion(st, tr) ==
    LET a1 == PopulateDirty([st |-> st, tr |-> tr, ok |-> TRUE], 1)
        a3 == ApplyBindGroups(a1, 1)
        s4 == IF a3.tr.inCompute THEN TransitionStorageBuffers(a3.st, StorageBuffersOf(a3.tr))
              ELSE a3.st
    IN  IF ~a1.ok
        THEN [st |-> a1.st, tr |-> a1.tr, result |-> "error"]
        ELSE [st |-> s4, tr |-> DidApply(a3.tr), result |-> "success"]

\* BindGroupStateTracker::Apply: [st, tr, result].  A Populate that fails after the
\* heap switch trips ASSERT(didCreateBindGroups): result "fatal".
Apply(st, tr) ==
    LET a1 == PopulateDirty([st |-> st, tr |-> tr, ok |-> TRUE], 1)
        a2 == IF ~a1.ok THEN HeapSwitchAndRetry(a1) ELSE a1
        a3 == ApplyBindGroups(a2, 1)
        s4 == IF a3.tr.inCompute THEN TransitionStorageBuffers(a3.st, StorageBuffersOf(a3.tr))
              ELSE a3.st
    IN  IF ~a2.ok
        THEN [st |-> a2.st, tr |-> a2.tr, result |-> "fatal"]
        ELSE [st |-> s4, tr |-> DidApply(a3.tr), result |-> "success"]

\* vulkan ApplyDescriptorSets: one CmdBindDescriptorSets per slot to apply
RECURSIVE ApplyDescriptorSets(_, _, _)
ApplyDescriptorSets(st, tr, k) ==
    IF k > Len(SlotOrder) THEN st
    ELSE ApplyDescriptorSets(
             IF SlotOrder[k] \in tr.dirtyDyn
             THEN Emit(st, [op |-> "CmdBindDescriptorSets", index |-> SlotOrder[k],
                            group |-> tr.groups[SlotOrder[k]],
                            dynamicOffsetCount |-> tr.counts[SlotOrder[k]]])
             ELSE st,
             tr, k + 1)

\* vulkan RenderDescriptorSetTracker::Apply and ComputeDescriptorSetTracker::Apply
DescriptorSetTrackerApply(st, tr, compute) ==
    LET s1 == ApplyDescriptorSets(st, tr, 1)
        s2 == IF compute THEN TransitionStorageBuffers(s1, StorageBuffersOf(tr)) ELSE s1
    IN  [st |-> s2, tr |-> DidApply(tr), result |-> "success"]

\* The binding tracker of the backend applied before a draw or a dispatch.
ApplyBindings(st) ==
    IF backend = "d3d12" THEN Apply(st, Tr)
    ELSE DescriptorSetTrackerApply(st, Tr, ctx = "compute")

CommitTracker(tr) ==
    /\ mBindGroups' = tr.groups
    /\ mDynamicOffsetCounts' = tr.counts
    /\ mDirtyBindGroups' = tr.dirty
    /\ mDirtyBindGroupsObjectChangedOrIsDynamic' = tr.dirtyDyn
    /\ mBindGroupLayoutsMask' = tr.mask
    /\ mPipelineLayout' = tr.layout
    /\ mLastAppliedPipelineLayout' = tr.last
    /\ heap' = tr.heap

(***************************************************************************)
(* Render pipelines, vertex and index buffers of a render pass.            *)
(***************************************************************************)
kMaxVertexBuffers == 3
VertexSlots == 0..(kMaxVertexBuffers - 1)

\* The pipelines of the recording: the pipeline layout, the vertex buffer slots
\* the vertex state uses with their array strides, the index format.
PipelineTable ==
    [ P1 |-> [layout |-> "L1", slotsUsed |-> {}, arrayStride |-> [s \in VertexSlots |-> 0],
              indexFormat |-> "Uint16"],
      P2 |-> [layout |-> "L2", slotsUsed |-> {}, arrayStride |-> [s \in VertexSlots |-> 0],
              indexFormat |-> "Uint16"],
      PA |-> [layout |-> "L0", slotsUsed |-> {0},
              arrayStride |-> [s \in VertexSlots |-> IF s = 0 THEN 4 ELSE 0],
              indexFormat |-> "Uint16"],
      PB |-> [layout |-> "L0", slotsUsed |-> {0, 2},
              arrayStride |-> [s \in VertexSlots |-> IF s = 0 THEN 8 ELSE IF s = 2 THEN 4 ELSE 0],
              indexFormat |-> "Uint32"],
      PC |-> [layout |-> "L0", slotsUsed |-> {1},
              arrayStride |-> [s \in VertexSlots |-> IF s = 1 THEN 4 ELSE 0],
              indexFormat |-> "Uint16"] ]
Pipelines == DOMAIN PipelineTable

\* Buffer::GetVA and Buffer::GetSize of the vertex and index buffers
BufferTable ==
    [ bufA |-> [va |-> 256, size |-> 64],
      bufB |-> [va |-> 512, size |-> 64] ]

Min(a, b) == IF a < b THEN a ELSE b

\* d3d12 DXGIIndexFormat
DXGIIndexFormat(format) ==
    IF format = "Uint16" THEN "DXGI_FORMAT_R16_UINT" ELSE "DXGI_FORMAT_R32_UINT"

\* vulkan VulkanIndexType
VulkanIndexType(format) ==
    IF format = "Uint16" THEN "VK_INDEX_TYPE_UINT16" ELSE "VK_INDEX_TYPE_UINT32"

\* Nothing bound in the native command buffer.
Unbound == [unbound |-> TRUE]

\* The d3d12 VertexBufferTracker as a record of its members.
Vb == [last |-> mLastAppliedRenderPipeline, startSlot |-> mStartSlot, endSlot |-> mEndSlot,
       views |-> mD3D12BufferViews]

\* The d3d12 IndexBufferTracker as a record of its members.
Ib == [lastFormat |-> mLastAppliedIndexFormat, view |-> mD3D12BufferView]

\* OnSetVertexBuffer with the dirty range replaced by the slot set, not widened.
OnSetVertexBuffer_LastSlotOnly(vb, slot, buffer, offset) ==
    [vb EXCEPT !.startSlot = slot,
               !.endSlot = slot + 1,
               !.views[slot].BufferLocation = BufferTable[buffer].va + offset,
               !.views[slot].SizeInBytes = BufferTable[buffer].size - offset]

\* VertexBufferTracker::OnSetVertexBuffer
OnSetVertexBuffer(vb, slot, buffer, offset) ==
    [vb EXCEPT !.startSlot = Min(@, slot),
               !.endSlot = Max(@, slot + 1),
               !.views[slot].BufferLocation = BufferTable[buffer].va + offset,
               !.views[slot].SizeInBytes = BufferTable[buffer].size - offset]

\* VertexBufferTracker::Apply, the dirty range widened over the slots the pipeline
\* uses: [startSlot, endSlot]
RECURSIVE WidenOverSlotsUsed(_, _)
WidenOverSlotsUsed(range, slots) ==
    IF slots = {} THEN range
    ELSE LET slot == CHOOSE x \in slots : TRUE
         IN  WidenOverSlotsUsed([startSlot |-> Min(range.startSlot, slot),
                                 endSlot |-> Max(range.endSlot, slot + 1)],
                                slots \ {slot})

\* VertexBufferTracker::Apply without the widening of the dirty range over the
\* slots of a changed pipeline.
VertexBufferTrackerApply_NoWiden(acc, renderPipeline) ==
    LET vb == acc.vb
        vertexBufferSlotsUsed == PipelineTable[renderPipeline].slotsUsed
        changed == vb.last # renderPipeline
        range == [startSlot |-> vb.startSlot, endSlot |-> vb.endSlot]
        views == IF changed
                 THEN [ slot \in VertexSlots |->
                          IF slot \in vertexBufferSlotsUsed
                          THEN [vb.views[slot] EXCEPT !.StrideInBytes =
                                    PipelineTable[renderPipeline].arrayStride[slot]]
                          ELSE vb.views[slot] ]
                 ELSE vb.views
        vb1 == [vb EXCEPT !.last = renderPipeline, !.views = views]
    IN  IF range.endSlot <= range.startSlot
        THEN [acc EXCEPT !.vb = vb1]
        ELSE [ st |-> Emit(acc.st, [op |-> "IASetVertexBuffers",
                                    startSlot |-> range.startSlot,
                                    count |-> range.endSlot - range.startSlot]),
               vb |-> [vb1 EXCEPT !.startSlot = kMaxVertexBuffers, !.endSlot = 0],
               ia |-> [ slot \in VertexSlots |->
                          IF range.startSlot <= slot /\ slot < range.endSlot
                          THEN views[slot] ELSE acc.ia[slot] ] ]

\* VertexBufferTracker::Apply over acc = [st, vb, ia]
VertexBufferTrackerApply(acc, renderPipeline) ==
    LET vb == acc.vb
        vertexBufferSlotsUsed == PipelineTable[renderPipeline].slotsUsed
        changed == vb.last # renderPipeline
        range == IF changed
                 THEN WidenOverSlotsUsed([startSlot |-> vb.startSlot, endSlot |-> vb.endSlot],
                                         vertexBufferSlotsUsed)
                 ELSE [startSlot |-> vb.startSlot, endSlot |-> vb.endSlot]
        views == IF changed
                 THEN [ slot \in VertexSlots |->
                          IF slot \in vertexBufferSlotsUsed
                          THEN [vb.views[slot] EXCEPT !.StrideInBytes =
                                    PipelineTable[renderPipeline].arrayStride[slot]]
                          ELSE vb.views[slot] ]
                 ELSE vb.views
        vb1 == [vb EXCEPT !.last = renderPipeline, !.views = views]
    IN  IF range.endSlot <= range.startSlot
        THEN [acc EXCEPT !.vb = vb1]
        ELSE [ st |-> Emit(acc.st, [op |-> "IASetVertexBuffers",
                                    startSlot |-> range.startSlot,
                                    count |-> range.endSlot - range.startSlot]),
               vb |-> [vb1 EXCEPT !.startSlot = kMaxVertexBuffers, !.endSlot = 0],
               ia |-> [ slot \in VertexSlots |->
                          IF range.startSlot <= slot /\ slot < range.endSlot
                          THEN views[slot] ELSE acc.ia[slot] ] ]

\* OnSetIndexBuffer that leaves the last applied format as it is.
OnSetIndexBuffer_NoReset(ib, buffer, offset) ==
    [ib EXCEPT !.view.BufferLocation = BufferTable[buffer].va + offset,
               !.view.SizeInBytes = BufferTable[buffer].size - offset]

\* IndexBufferTracker::OnSetIndexBuffer
OnSetIndexBuffer(ib, buffer, offset) ==
    [ib EXCEPT !.view.BufferLocation = BufferTable[buffer].va + offset,
               !.view.SizeInBytes = BufferTable[buffer].size - offset,
               !.lastFormat = "DXGI_FORMAT_UNKNOWN"]

\* IndexBufferTracker::OnSetPipeline
IndexBufferTrackerOnSetPipeline(ib, pipeline) ==
    [ib EXCEPT !.view.Format = DXGIIndexFormat(PipelineTable[pipeline].indexFormat)]

\* IndexBufferTracker::Apply over acc = [st, ib, ia]
IndexBufferTrackerApply(acc) ==
    IF acc.ib.view.Format = acc.ib.lastFormat
    THEN acc
    ELSE [ st |-> Emit(acc.st, [op |-> "IASetIndexBuffer", view |-> acc.ib.view]),
           ib |-> [acc.ib EXCEPT !.lastFormat = acc.ib.view.Format],
           ia |-> acc.ib.view ]

CommitVertexBufferTracker(vb) ==
    /\ mLastAppliedRenderPipeline' = vb.last
    /\ mStartSlot' = vb.startSlot
    /\ mEndSlot' = vb.endSlot
    /\ mD3D12BufferViews' = vb.views

CommitIndexBufferTracker(ib) ==
    /\ mLastAppliedIndexFormat' = ib.lastFormat
    /\ mD3D12BufferView' = ib.view

\* VertexBufferTracker vertexBufferTracker = {}
NewVertexBufferTracker ==
    [ last |-> "null", startSlot |-> kMaxVertexBuffers, endSlot |-> 0,
      views |-> [ slot \in VertexSlots |->
                    [BufferLocation |-> 0, SizeInBytes |-> 0, StrideInBytes |-> 0] ] ]

\* IndexBufferTracker indexBufferTracker = {}
NewIndexBufferTracker ==
    [ lastFormat |-> "DXGI_FORMAT_UNKNOWN",
      view |-> [BufferLocation |-> 0, SizeInBytes |-> 0, Format |-> "DXGI_FORMAT_UNKNOWN"] ]

\* The locals of RecordRenderPass as declared before its record loop.
NewRenderPassLocals ==
    /\ lastPipeline' = "null"
    /\ CommitVertexBufferTracker(NewVertexBufferTracker)
    /\ CommitIndexBufferTracker(NewIndexBufferTracker)
    /\ setSinceApply' = {}

(***************************************************************************)
(* Actions of the recorder: one per record.                                *)
(***************************************************************************)
Commit(st, cmd) ==
    /\ isInit' = st.init
    /\ texState' = st.tex
    /\ bufState' = st.buf
    /\ emitted' = st.out
    /\ lastCmd' = cmd

\* Nothing set yet in the pass.
\* The loop of RecordRenderPass is handling a record: one of the pass itself,
\* or one of a bundle that ExecuteBundles replays through
\* EncodeRenderBundleCommand.
InRenderPass == ctx \in {"render", "bundle"}

NothingValidated ==
    [pipeline |-> FALSE, groups |-> {}, vertexSlots |-> {}, indexBuffer |-> Unbound]

\* What the frontend requires of a draw or dispatch: a pipeline and a bind group
\* in every slot of its layout have been set in this pass.
DrawValidated ==
    /\ validated.pipeline
    /\ mPipelineLayout \in PipelineLayouts
    /\ GetBindGroupLayoutsMask(mPipelineLayout) \subseteq validated.groups
    /\ InRenderPass =>
           /\ lastPipeline \in Pipelines
           /\ PipelineTable[lastPipeline].slotsUsed \subseteq validated.vertexSlots

\* What the frontend requires of an indexed draw: an index buffer as well.
DrawIndexedValidated ==
    /\ DrawValidated
    /\ validated.indexBuffer # Unbound

\* A binding tracker as constructed, over the heaps as they are.
NewTracker ==
    [ groups |-> [ i \in Slots |-> "null" ], counts |-> [ i \in Slots |-> 0 ],
      dirty |-> {}, dirtyDyn |-> {}, mask |-> {}, layout |-> "null", last |-> "null",
      inCompute |-> mInCompute, heap |-> heap ]

\* The binding tracker at the start of a pass: vulkan declares a new tracker in
\* RecordRenderPass and RecordComputePass, d3d12 hands the tracker of
\* RecordCommands to every pass.
PassTracker ==
    IF backend = "vulkan" THEN CommitTracker(NewTracker) ELSE CommitTracker(Tr)

TrackerUnchanged ==
    UNCHANGED <<mBindGroups, mDynamicOffsetCounts, mDirtyBindGroups,
                mDirtyBindGroupsObjectChangedOrIsDynamic, mBindGroupLayoutsMask,
                mPipelineLayout, mLastAppliedPipelineLayout, heap>>

\* A top-level record that is not a pass: no pass is open afterwards.
TopLevel ==
    /\ ctx = "top"
    /\ renderPass' = NoRenderPass
    /\ nativePass' = NoNativePass
    /\ UNCHANGED <<backend, useRenderPass, ctx, passReads, mInCompute, validated>>
    /\ UNCHANGED drawVars
    /\ TrackerUnchanged

CopyBufferToBuffer(copy) ==
    /\ TopLevel
    /\ Commit(IF backend = "vulkan" THEN VkCopyBufferToBuffer(St, copy)
              ELSE D3D12CopyBufferToBuffer(St, copy),
              [type |-> "CopyBufferToBuffer", copy |-> copy])

CopyBufferToTexture(copy) ==
    /\ TopLevel
    /\ Commit(IF backend = "vulkan" THEN VkCopyBufferToTexture(St, copy)
              ELSE D3D12CopyBufferToTexture(St, copy),
              [type |-> "CopyBufferToTexture", copy |-> copy])

CopyTextureToBuffer(copy) ==
    /\ TopLevel
    /\ Commit(IF backend = "vulkan" THEN VkCopyTextureToBuffer(St, copy)
              ELSE D3D12CopyTextureToBuffer(St, copy),
              [type |-> "CopyTextureToBuffer", copy |-> copy])

CopyTextureToTexture(copy) ==
    /\ TopLevel
    /\ Commit(IF backend = "vulkan" THEN VkCopyTextureToTexture(St, copy)
              ELSE D3D12CopyTextureToTexture(St, copy),
              [type |-> "CopyTextureToTexture", copy |-> copy])

\* BeginRenderPass without SetInComputePass(false): the tracker keeps the flag
\* of the pass before.
BeginRenderPass_KeepsComputeFlag(cmd, usages) ==
    /\ ctx = "top"
    /\ LET r == IF backend = "vulkan"
                THEN VkRecordRenderPassBegin(TransitionForPass(St, usages), cmd)
                ELSE D3D12RecordRenderPassBegin(
                         PrepareResourcesForSubmission(St, usages), cmd, useRenderPass)
       IN  /\ Commit(r.st, [type |-> "BeginRenderPass", cmd |-> cmd, usages |-> usages])
           /\ renderPass' = r.cmd
           /\ nativePass' = r.native
    /\ ctx' = "render"
    /\ passReads' = ReadTextures(usages)
    /\ mInCompute' = mInCompute
    /\ validated' = NothingValidated
    /\ NewRenderPassLocals
    /\ UNCHANGED <<backend, useRenderPass, iaVertexBuffers, iaIndexBuffer>>
    /\ PassTracker

\* case Command::BeginRenderPass of RecordCommands, up to the record loop of
\* RecordRenderPass
BeginRenderPass(cmd, usages) ==
    /\ ctx = "top"
    /\ LET r == IF backend = "vulkan"
                THEN VkRecordRenderPassBegin(TransitionForPass(St, usages), cmd)
                ELSE D3D12RecordRenderPassBegin(
                         PrepareResourcesForSubmission(St, usages), cmd, useRenderPass)
       IN  /\ Commit(r.st, [type |-> "BeginRenderPass", cmd |-> cmd, usages |-> usages])
           /\ renderPass' = r.cmd
           /\ nativePass' = r.native
    /\ ctx' = "render"
    /\ passReads' = ReadTextures(usages)
    /\ mInCompute' = IF backend = "d3d12" THEN FALSE ELSE mInCompute
    /\ validated' = NothingValidated
    /\ NewRenderPassLocals
    /\ UNCHANGED <<backend, useRenderPass, iaVertexBuffers, iaIndexBuffer>>
    /\ PassTracker

\* case Command::BeginComputePass of RecordCommands, up to the record loop of
\* RecordComputePass
BeginComputePass(usages) ==
    /\ ctx = "top"
    /\ Commit(IF backend = "vulkan" THEN TransitionForPass(St, usages)
              ELSE PrepareResourcesForSubmission(St, usages),
              [type |-> "BeginComputePass", usages |-> usages])
    /\ renderPass' = NoRenderPass
    /\ nativePass' = NoNativePass
    /\ ctx' = "compute"
    /\ passReads' = ReadTextures(usages)
    /\ mInCompute' = IF backend = "d3d12" THEN TRUE ELSE mInCompute
    /\ validated' = NothingValidated
    /\ UNCHANGED <<backend, useRenderPass>>
    /\ UNCHANGED drawVars
    /\ PassTracker

\* The textures a draw or dispatch of the open pass reads, with their flags.
PassReadsInitialized(init) ==
    \A t \in passReads :
        IsSubresourceContentInitialized(init, t, 0, GetNumMipLevels(t), 0, GetArrayLayers(t))

\* ApplyDrawBuffers with the vertex buffer tracker applied before the index
\* buffer tracker.
ApplyDrawBuffers_VertexFirst(st, indexed) ==
    IF backend = "vulkan"
    THEN [st |-> st, vb |-> Vb, ib |-> Ib, iaV |-> iaVertexBuffers, iaI |-> iaIndexBuffer]
    ELSE LET v == VertexBufferTrackerApply([st |-> st, vb |-> Vb, ia |-> iaVertexBuffers],
                                           lastPipeline)
             i == IF indexed
                  THEN IndexBufferTrackerApply([st |-> v.st, ib |-> Ib, ia |-> iaIndexBuffer])
                  ELSE [st |-> v.st, ib |-> Ib, ia |-> iaIndexBuffer]
         IN  [st |-> i.st, vb |-> v.vb, ib |-> i.ib, iaV |-> v.ia, iaI |-> i.ia]

\* d3d12: vertexBufferTracker.Apply(commandList, lastPipeline), and
\* indexBufferTracker.Apply(commandList) before it for an indexed draw; vulkan
\* has bound the buffers when they were set.  [st, vb, ib, iaV, iaI]
ApplyDrawBuffers(st, indexed) ==
    IF backend = "vulkan"
    THEN [st |-> st, vb |-> Vb, ib |-> Ib, iaV |-> iaVertexBuffers, iaI |-> iaIndexBuffer]
    ELSE LET i == IF indexed
                  THEN IndexBufferTrackerApply([st |-> st, ib |-> Ib, ia |-> iaIndexBuffer])
                  ELSE [st |-> st, ib |-> Ib, ia |-> iaIndexBuffer]
             v == VertexBufferTrackerApply([st |-> i.st, vb |-> Vb, ia |-> iaVertexBuffers],
                                           lastPipeline)
         IN  [st |-> v.st, vb |-> v.vb, ib |-> i.ib, iaV |-> v.ia, iaI |-> i.ia]

\* DAWN_TRY(bindingTracker->Apply(...)) and what follows it in the handler: the
\* rest of the handler runs when Apply succeeded; an error leaves the handler
\* and a failed assertion aborts.
AfterApply(result, st, rest) ==
    IF result = "success" THEN rest
    ELSE IF result = "fatal" THEN Emit(st, [op |-> "abort"])
    ELSE st

\* The draw records of a render pass: the trackers are applied, then the draw is
\* emitted.
DrawRecord(type, nativeOp, indexed) ==
    /\ InRenderPass
    /\ \E a \in { ApplyBindings(St) } :
         \E d \in { ApplyDrawBuffers(a.st, indexed) } :
           /\ Commit(AfterApply(a.result, a.st,
                                 Emit(d.st, [op |-> nativeOp,
                                             reads |-> passReads,
                                             readsInit |-> PassReadsInitialized(isInit)])),
                     [type |-> type])
           /\ CommitTracker(a.tr)
           /\ CommitVertexBufferTracker(IF a.result = "success" THEN d.vb ELSE Vb)
           /\ CommitIndexBufferTracker(IF a.result = "success" THEN d.ib ELSE Ib)
           /\ iaVertexBuffers' = IF a.result = "success" THEN d.iaV ELSE iaVertexBuffers
           /\ iaIndexBuffer' = IF a.result = "success" THEN d.iaI ELSE iaIndexBuffer
    /\ setSinceApply' = {}
    /\ UNCHANGED <<backend, useRenderPass, ctx, renderPass, nativePass, passReads,
                   mInCompute, validated, lastPipeline>>

\* case Command::Draw inside RecordRenderPass
Draw ==
    DrawRecord("Draw", IF backend = "vulkan" THEN "CmdDraw" ELSE "DrawInstanced", FALSE)

\* case Command::DrawIndexed inside RecordRenderPass
DrawIndexed ==
    DrawRecord("DrawIndexed",
               IF backend = "vulkan" THEN "CmdDrawIndexed" ELSE "DrawIndexedInstanced", TRUE)

\* case Command::Dispatch inside RecordComputePass
Dispatch ==
    /\ ctx = "compute"
    /\ \E a \in { ApplyBindings(St) } :
           /\ Commit(AfterApply(a.result, a.st,
                                 Emit(a.st, [op |-> IF backend = "vulkan" THEN "CmdDispatch"
                                                    ELSE "Dispatch",
                                             reads |-> passReads,
                                             readsInit |-> PassReadsInitialized(isInit)])),
                     [type |-> "Dispatch"])
           /\ CommitTracker(a.tr)
    /\ UNCHANGED <<backend, useRenderPass, ctx, renderPass, nativePass, passReads,
                   mInCompute, validated>>
    /\ UNCHANGED drawVars

\* The native instructions of case Command::SetRenderPipeline and
\* case Command::SetComputePipeline
EmitSetPipeline(st, pipeline) ==
    LET layout == PipelineTable[pipeline].layout
    IN  IF backend = "vulkan"
        THEN Emit(st, [op |-> "CmdBindPipeline", pipeline |-> pipeline])
        ELSE LET s == Emit(Emit(st, [op |-> IF ctx = "compute"
                                            THEN "SetComputeRootSignature"
                                            ELSE "SetGraphicsRootSignature",
                                     layout |-> layout]),
                           [op |-> "SetPipelineState", pipeline |-> pipeline])
             IN  IF ctx = "render" THEN Emit(s, [op |-> "IASetPrimitiveTopology"]) ELSE s

\* case Command::SetRenderPipeline / Command::SetComputePipeline
SetPipeline(pipeline) ==
    /\ InRenderPass \/ ctx = "compute"
    /\ Commit(EmitSetPipeline(St, pipeline),
              [type |-> "SetPipeline", layout |-> PipelineTable[pipeline].layout,
               pipeline |-> pipeline])
    /\ CommitTracker(IF backend = "vulkan"
                     THEN OnSetPipelineInherit(Tr, PipelineTable[pipeline].layout)
                     ELSE OnSetPipeline(Tr, PipelineTable[pipeline].layout))
    /\ validated' = [validated EXCEPT !.pipeline = TRUE]
    /\ IF InRenderPass
       THEN /\ lastPipeline' = pipeline
            /\ CommitIndexBufferTracker(
                   IF backend = "d3d12" THEN IndexBufferTrackerOnSetPipeline(Ib, pipeline)
                   ELSE Ib)
            /\ UNCHANGED <<mLastAppliedRenderPipeline, mStartSlot, mEndSlot,
                           mD3D12BufferViews, iaVertexBuffers, iaIndexBuffer, setSinceApply>>
       ELSE UNCHANGED drawVars
    /\ UNCHANGED <<backend, useRenderPass, ctx, renderPass, nativePass, passReads, mInCompute>>

\* case Command::SetBindGroup of either pass
SetBindGroup(index, group) ==
    /\ InRenderPass \/ ctx \in {"compute", "raytracing"}
    /\ Commit(St, [type |-> "SetBindGroup", index |-> index, group |-> group])
    /\ CommitTracker(OnSetBindGroup(Tr, index, group,
                                    BindGroupTable[group].dynamicOffsetCount))
    /\ validated' = [validated EXCEPT !.groups = @ \cup {index}]
    /\ UNCHANGED <<backend, useRenderPass, ctx, renderPass, nativePass, passReads, mInCompute>>
    /\ UNCHANGED drawVars

\* case Command::SetVertexBuffer: d3d12 records the view in the tracker, vulkan
\* binds the buffer at once.
SetVertexBuffer(slot, buffer, offset) ==
    /\ ctx = "render"
    /\ Commit(IF backend = "vulkan"
              THEN Emit(St, [op |-> "CmdBindVertexBuffers", slot |-> slot,
                             buffer |-> buffer, offset |-> offset])
              ELSE St,
              [type |-> "SetVertexBuffer", slot |-> slot, buffer |-> buffer,
               offset |-> offset])
    /\ IF backend = "vulkan"
       THEN /\ iaVertexBuffers' = [iaVertexBuffers EXCEPT
                                       ![slot] = [buffer |-> buffer, offset |-> offset]]
            /\ UNCHANGED <<mLastAppliedRenderPipeline, mStartSlot, mEndSlot,
                           mD3D12BufferViews, setSinceApply>>
       ELSE /\ CommitVertexBufferTracker(OnSetVertexBuffer(Vb, slot, buffer, offset))
            /\ setSinceApply' = setSinceApply \cup {slot}
            /\ UNCHANGED iaVertexBuffers
    /\ validated' = [validated EXCEPT !.vertexSlots = @ \cup {slot}]
    /\ UNCHANGED <<backend, useRenderPass, ctx, renderPass, nativePass, passReads, mInCompute,
                   lastPipeline, mLastAppliedIndexFormat, mD3D12BufferView, iaIndexBuffer>>
    /\ TrackerUnchanged

\* The index type vulkan binds an index buffer with: the one of lastPipeline;
\* with no pipeline set the handler reads through a null pointer, and any index
\* type may come out.
IndexTypesOfLastPipeline ==
    IF lastPipeline = "null"
    THEN { VulkanIndexType(f) : f \in {"Uint16", "Uint32"} }
    ELSE { VulkanIndexType(PipelineTable[lastPipeline].indexFormat) }

\* case Command::SetIndexBuffer: d3d12 records the view in the tracker, vulkan
\* binds the buffer at once with the index type of lastPipeline.
SetIndexBuffer(buffer, offset) ==
    /\ ctx = "render"
    /\ IF backend = "vulkan"
       THEN \E indexType \in IndexTypesOfLastPipeline :
              /\ Commit(Emit(St, [op |-> "CmdBindIndexBuffer", buffer |-> buffer,
                                  offset |-> offset, indexType |-> indexType]),
                        [type |-> "SetIndexBuffer", buffer |-> buffer, offset |-> offset])
              /\ iaIndexBuffer' = [buffer |-> buffer, offset |-> offset,
                                   indexType |-> indexType]
              /\ UNCHANGED <<mLastAppliedIndexFormat, mD3D12BufferView>>
       ELSE /\ Commit(St, [type |-> "SetIndexBuffer", buffer |-> buffer, offset |-> offset])
            /\ CommitIndexBufferTracker(OnSetIndexBuffer(Ib, buffer, offset))
            /\ UNCHANGED iaIndexBuffer
    /\ validated' = [validated EXCEPT !.indexBuffer = [buffer |-> buffer, offset |-> offset]]
    /\ UNCHANGED <<backend, useRenderPass, ctx, renderPass, nativePass, passReads, mInCompute,
                   lastPipeline, mLastAppliedRenderPipeline, mStartSlot, mEndSlot,
                   mD3D12BufferViews, iaVertexBuffers, setSinceApply>>
    /\ TrackerUnchanged

EndRenderPass ==
    /\ ctx = "render"
    /\ Commit(IF backend = "vulkan" THEN VkEndRenderPass(St)
              ELSE D3D12EndRenderPass(St, renderPass, useRenderPass),
              [type |-> "EndRenderPass"])
    /\ ctx' = "top"
    /\ passReads' = {}
    /\ renderPass' = NoRenderPass
    /\ nativePass' = NoNativePass
    /\ validated' = NothingValidated
    /\ NewRenderPassLocals
    /\ UNCHANGED <<backend, useRenderPass, mInCompute, iaVertexBuffers, iaIndexBuffer>>
    /\ TrackerUnchanged

EndComputePass ==
    /\ ctx = "compute"
    /\ Commit(St, [type |-> "EndComputePass"])
    /\ ctx' = "top"
    /\ passReads' = {}
    /\ validated' = NothingValidated
    /\ UNCHANGED <<backend, useRenderPass, renderPass, nativePass, mInCompute>>
    /\ UNCHANGED drawVars
    /\ TrackerUnchanged

\* A command stream of copies and compute passes.
Next ==
    \/ ctx = "top" /\ \E copy \in BufferToBufferCopies : CopyBufferToBuffer(copy) /\ UNCHANGED streamVars
    \/ ctx = "top" /\ \E copy \in BufferToTextureCopies : CopyBufferToTexture(copy) /\ UNCHANGED streamVars
    \/ ctx = "top" /\ \E copy \in TextureToBufferCopies : CopyTextureToBuffer(copy) /\ UNCHANGED streamVars
    \/ ctx = "top" /\ \E copy \in TextureToTextureCopies : CopyTextureToTexture(copy) /\ UNCHANGED streamVars
    \/ ctx = "top" /\ \E usages \in ComputePassUsages : BeginComputePass(usages) /\ UNCHANGED streamVars
    \/ Dispatch /\ UNCHANGED streamVars
    \/ EndComputePass /\ UNCHANGED streamVars

\* A command stream of render passes.
NextPass ==
    \/ ctx = "top" /\ \E cmd \in BeginRenderPassCmds :
                            \E usages \in RenderPassUsages(cmd) :
                                BeginRenderPass(cmd, usages) /\ UNCHANGED streamVars
    \/ EndRenderPass /\ UNCHANGED streamVars

\* The binding tracker as constructed (BindGroupStateTracker bindingTracker(device)).
TrackerInit ==
    /\ mBindGroups = [ i \in Slots |-> "null" ]
    /\ mDynamicOffsetCounts = [ i \in Slots |-> 0 ]
    /\ mDirtyBindGroups = {}
    /\ mDirtyBindGroupsObjectChangedOrIsDynamic = {}
    /\ mBindGroupLayoutsMask = {}
    /\ mPipelineLayout = "null"
    /\ mLastAppliedPipelineLayout = "null"
    /\ mInCompute = FALSE
    /\ heap = [ used |-> 0, alloc |-> [ g \in BindGroups |-> "none" ],
                tables |-> [ i \in Slots |-> "none" ] ]
    /\ validated = NothingValidated
    /\ lastPipeline = "null"
    /\ mLastAppliedRenderPipeline = NewVertexBufferTracker.last
    /\ mStartSlot = NewVertexBufferTracker.startSlot
    /\ mEndSlot = NewVertexBufferTracker.endSlot
    /\ mD3D12BufferViews = NewVertexBufferTracker.views
    /\ mLastAppliedIndexFormat = NewIndexBufferTracker.lastFormat
    /\ mD3D12BufferView = NewIndexBufferTracker.view
    /\ iaVertexBuffers = [ slot \in VertexSlots |-> Unbound ]
    /\ iaIndexBuffer = Unbound
    /\ setSinceApply = {}

\* The render bundles of the device, each the records its encoder took: B0 is
\* empty; B1 and B2 set their pipeline and bind groups and draw.
BundleTable ==
    [ B0 |-> << >>,
      B1 |-> << [type |-> "SetPipeline", pipeline |-> "P1"],
                [type |-> "SetBindGroup", index |-> 0, group |-> "G1"],
                [type |-> "SetBindGroup", index |-> 1, group |-> "G2"],
                [type |-> "Draw"] >>,
      B2 |-> << [type |-> "SetPipeline", pipeline |-> "P2"],
                [type |-> "SetBindGroup", index |-> 0, group |-> "G3"],
                [type |-> "SetBindGroup", index |-> 1, group |-> "G2"],
                [type |-> "Draw"],
                [type |-> "Draw"] >> ]
Bundles == DOMAIN BundleTable

\* The acceleration containers of the recording: level and whether the build
\* flags hold ALLOW_UPDATE.
ContainerTable ==
    [ blas |-> [level |-> "Bottom", allowUpdate |-> TRUE],
      tlas |-> [level |-> "Top", allowUpdate |-> TRUE],
      tlasFixed |-> [level |-> "Top", allowUpdate |-> FALSE] ]

Containers == DOMAIN ContainerTable

\* Entry of RecordCommands: the iterator at the first record, no pass recorded,
\* no bottom-level build or update seen.
RecordCommandsEntry ==
    /\ returned = "recording"
    /\ nextPassNumber = 0
    /\ passesOpened = 0
    /\ cursor = 0
    /\ recordEnd = 0
    /\ hasBottomLevelContainerBuild = FALSE
    /\ hasBottomLevelContainerUpdate = FALSE
    /\ bottomLevelPending = FALSE
    /\ validationError = ""
    /\ bundlesLeft = 0
    /\ executing = << >>
    /\ replayed = << >>

\* The state at the first RecordCommands of a device: the resources as given,
\* every acceleration container as created.
DeviceInit(textures, written, trackedTextures, trackedBuffers) ==
    /\ backend \in {"vulkan", "d3d12"}
    /\ useRenderPass \in (IF backend = "d3d12" THEN BOOLEAN ELSE {FALSE})
    /\ isInit = [ s \in AllSubresources(textures) |-> written ]
    /\ texState = [ t \in trackedTextures |-> {} ]
    /\ bufState = [ b \in trackedBuffers |-> {} ]
    /\ ctx = "top"
    /\ lastCmd = [type |-> "none"]
    /\ renderPass = NoRenderPass
    /\ nativePass = NoNativePass
    /\ passReads = {}
    /\ emitted = IF backend = "d3d12" THEN << [op |-> "SetDescriptorHeaps"] >> ELSE << >>
    /\ TrackerInit
    /\ RecordCommandsEntry
    /\ containers = [ c \in Containers |->
                         [built |-> FALSE, updated |-> FALSE, scratchBuild |-> TRUE] ]
    /\ bundleIter = [ b \in Bundles |-> 0 ]

RecorderInit(textures, written, trackedTextures, trackedBuffers) ==
    /\ DeviceInit(textures, written, trackedTextures, trackedBuffers)
    /\ debugMarker = FALSE
    /\ useTemporaryBuffer = TRUE

\* Freshly created textures (no subresource written), usage states held outside.
Init == RecorderInit({"texA", "texB", "texDS"}, FALSE, {}, {})

Spec == Init /\ [][Next]_vars

SpecPass == Init /\ [][NextPass]_vars

(***************************************************************************)
(* SpecTrans: the recorder over resources whose usage state is tracked.    *)
(* The textures have been written before (every flag is set) and every     *)
(* pass and copy keeps them so: the records store their attachments and    *)
(* the copies cover their destination.                                     *)
(***************************************************************************)
FullCopies(copies) ==
    { c \in copies :
          "texture" \in DOMAIN c.destination =>
              IsCompleteSubresourceCopiedTo(c.destination.texture, c.copySize,
                                            c.destination.mipLevel) }

StoringRenderPassCmds ==
    { cmd \in BeginRenderPassCmds :
          /\ \A i \in 1..Len(cmd.colorAttachments) :
                 /\ cmd.colorAttachments[i].storeOp = "Store"
                 /\ cmd.colorAttachments[i].loadOp = "Load"
                 /\ cmd.colorAttachments[i].clearColor = 0
          /\ \A i \in 1..Len(cmd.depthStencil) : FALSE }

NextTrans ==
    \/ ctx = "top" /\ \E copy \in BufferToBufferCopies : CopyBufferToBuffer(copy) /\ UNCHANGED streamVars
    \/ ctx = "top" /\ \E copy \in FullCopies(BufferToTextureCopies) :
                           CopyBufferToTexture(copy) /\ UNCHANGED streamVars
    \/ ctx = "top" /\ \E copy \in TextureToBufferCopies : CopyTextureToBuffer(copy) /\ UNCHANGED streamVars
    \/ ctx = "top" /\ \E copy \in FullCopies(TextureToTextureCopies) :
                           CopyTextureToTexture(copy) /\ UNCHANGED streamVars
    \/ ctx = "top" /\ \E cmd \in StoringRenderPassCmds :
                            \E usages \in RenderPassUsages(cmd) :
                                BeginRenderPass(cmd, usages) /\ UNCHANGED streamVars
    \/ ctx = "top" /\ \E usages \in ComputePassUsages : BeginComputePass(usages) /\ UNCHANGED streamVars
    \/ Dispatch /\ UNCHANGED streamVars
    \/ EndRenderPass /\ UNCHANGED streamVars
    \/ EndComputePass /\ UNCHANGED streamVars

InitTrans == RecorderInit({"texB"}, TRUE, {"texB"}, {"bufA", "bufB"})

SpecTrans == InitTrans /\ [][NextTrans]_vars

(***************************************************************************)
(* SpecBind: the pass bodies of a d3d12 recording, with the binding        *)
(* tracker.  One texture, written before; draws and dispatches are the     *)
(* ones the frontend lets through.                                         *)
(***************************************************************************)
NextBind ==
    \/ ctx = "top" /\ \E cmd \in StoringRenderPassCmds :
                            \E usages \in RenderPassUsages(cmd) :
                                BeginRenderPass(cmd, usages) /\ UNCHANGED streamVars
    \/ ctx = "top" /\ BeginComputePass(PassResourceUsage({}, {}, {}, {}, {})) /\ UNCHANGED streamVars
    \/ \E pipeline \in {"P1", "P2"} : SetPipeline(pipeline) /\ UNCHANGED streamVars
    \/ \E index \in Slots : \E group \in BindGroups : SetBindGroup(index, group) /\ UNCHANGED streamVars
    \/ DrawValidated /\ Draw /\ UNCHANGED streamVars
    \/ DrawValidated /\ Dispatch /\ UNCHANGED streamVars
    \/ EndRenderPass /\ UNCHANGED streamVars
    \/ EndComputePass /\ UNCHANGED streamVars

InitBind ==
    /\ RecorderInit({"texS"}, TRUE, {}, {})
    /\ useRenderPass = (backend = "d3d12")

SpecBind == InitBind /\ [][NextBind]_vars

\* ---------------------------------------------------------------------------
\* Render passes with pipelines, vertex buffers, index buffers and draws.
\* ---------------------------------------------------------------------------
\* The pipelines, the vertex buffers and the index buffers the recorded commands use.
DrawPipelines == {"PA", "PB", "PC"}
VertexBufferInputs == { <<"bufB", 16>> }
IndexBufferInputs == { <<"bufA", 0>>, <<"bufA", 16>> }
DrawRenderPassCmd ==
    CHOOSE cmd \in StoringRenderPassCmds : cmd.sampleCount = 1 /\ cmd.depthStencil = << >>

NextDraw ==
    \/ ctx = "top" /\ \E usages \in RenderPassUsages(DrawRenderPassCmd) :
                            BeginRenderPass(DrawRenderPassCmd, usages) /\ UNCHANGED streamVars
    \/ ctx = "render" /\ \E pipeline \in DrawPipelines : SetPipeline(pipeline) /\ UNCHANGED streamVars
    \/ ctx = "render" /\ \E slot \in VertexSlots : \E b \in VertexBufferInputs :
                            SetVertexBuffer(slot, b[1], b[2]) /\ UNCHANGED streamVars
    \/ ctx = "render" /\ \E b \in IndexBufferInputs : SetIndexBuffer(b[1], b[2]) /\ UNCHANGED streamVars
    \/ DrawValidated /\ Draw /\ UNCHANGED streamVars
    \/ DrawIndexedValidated /\ DrawIndexed /\ UNCHANGED streamVars
    \/ EndRenderPass /\ UNCHANGED streamVars

InitDraw ==
    /\ RecorderInit({"texS"}, TRUE, {}, {})
    /\ useRenderPass = (backend = "d3d12")

SpecDraw == InitDraw /\ [][NextDraw]_vars

\* ---------------------------------------------------------------------------
\* SpecStorage: compute passes over a storage buffer whose usage is tracked.
\* ---------------------------------------------------------------------------
\* The usages the frontend reports for bufA in a pass that binds it as a storage
\* buffer.
StorageBufferUsages == { {"Storage"}, {"Storage", "Uniform"} }

NextStorage ==
    \/ ctx = "top" /\ \E bu \in StorageBufferUsages :
                           BeginComputePass(PassResourceUsage({}, {}, {}, {"bufA"}, bu))
                               /\ UNCHANGED streamVars
    \/ ctx = "compute" /\ SetPipeline("P1") /\ UNCHANGED streamVars
    \/ ctx = "compute" /\ \E index \in Slots : \E group \in {"G1", "G2"} :
                               SetBindGroup(index, group) /\ UNCHANGED streamVars
    \/ DrawValidated /\ Dispatch /\ UNCHANGED streamVars
    \/ EndComputePass /\ UNCHANGED streamVars

InitStorage ==
    /\ RecorderInit({"texS"}, TRUE, {}, {"bufA"})
    /\ useRenderPass = (backend = "d3d12")

SpecStorage == InitStorage /\ [][NextStorage]_vars

(***************************************************************************)
(* SpecAttachments: d3d12 render passes with two colour attachments, each  *)
(* with or without a resolve target, and an optional depth/stencil or      *)
(* depth-only attachment.  The textures start unwritten.                   *)
(***************************************************************************)
\* The colour attachments of the pass: two layers of one texture, each with a
\* resolve target of its size or none.
FirstColorAttachments ==
    { [view |-> ViewOf(<<"texB", 0, 0>>), resolveTarget |-> r, loadOp |-> l,
       storeOp |-> "Store", clearColor |-> 1] :
          r \in {NoView, ViewOf(<<"texS", 0, 0>>)}, l \in LoadOps }

SecondColorAttachments ==
    { [view |-> ViewOf(<<"texB", 0, 1>>), resolveTarget |-> r, loadOp |-> l,
       storeOp |-> so, clearColor |-> 0] :
          r \in {NoView, ViewOf(<<"texA", 1, 0>>)}, l \in LoadOps, so \in StoreOps }

AttachmentDepthStencils ==
    { << >> } \cup
    { << [view |-> ViewOf(<<t, 0, 0>>), depthLoadOp |-> dl, depthStoreOp |-> "Store",
          clearDepth |-> 1, stencilLoadOp |-> sl, stencilStoreOp |-> "Store",
          clearStencil |-> 1] >> :
          t \in {"texDS", "texD"}, dl \in LoadOps, sl \in LoadOps }

\* A pass with a resolve target is multisampled.
AttachmentPassCmds ==
    UNION { { [colorAttachments |-> << a, b >>, depthStencil |-> d, sampleCount |-> n] :
                  n \in IF a.resolveTarget # NoView \/ b.resolveTarget # NoView
                        THEN {4} ELSE {1, 4} } :
            <<a, b, d>> \in FirstColorAttachments \X SecondColorAttachments
                                \X AttachmentDepthStencils }

NextAttachments ==
    \/ ctx = "top" /\ \E cmd \in AttachmentPassCmds :
                          BeginRenderPass(cmd, PassResourceUsage(AttachmentTextures(cmd),
                                                                 {}, {"Sampled"}, {}, {}))
                          /\ UNCHANGED streamVars
    \/ EndRenderPass /\ UNCHANGED streamVars

InitAttachments ==
    /\ RecorderInit({"texA", "texB", "texS", "texDS", "texD"}, FALSE, {}, {})
    /\ backend = "d3d12"

SpecAttachments == InitAttachments /\ [][NextAttachments]_vars

(***************************************************************************)
(* SpecRoots: d3d12 render and compute passes over a tracked storage       *)
(* buffer: the compute passes of SpecStorage and render passes that draw   *)
(* with the same bind groups.                                              *)
(***************************************************************************)
NextRoots ==
    \/ NextStorage
    \/ ctx = "top" /\ \E cmd \in StoringRenderPassCmds :
                        \E bu \in { {"Storage"}, {"Uniform"} } :
                          BeginRenderPass(cmd, PassResourceUsage(AttachmentTextures(cmd), {},
                                                                 {"Sampled"}, {"bufA"}, bu))
                          /\ UNCHANGED streamVars
    \/ ctx = "render" /\ SetPipeline("P1") /\ UNCHANGED streamVars
    \/ ctx = "render" /\ \E index \in Slots : \E group \in {"G1", "G2"} :
                              SetBindGroup(index, group) /\ UNCHANGED streamVars
    \/ DrawValidated /\ Draw /\ UNCHANGED streamVars
    \/ EndRenderPass /\ UNCHANGED streamVars

InitRoots == InitStorage /\ backend = "d3d12"

SpecRoots == InitRoots /\ [][NextRoots]_vars

(***************************************************************************)
(* SpecCompressed: vulkan texture-to-texture copies between the mip levels *)
(* of two textures of one block-compressed format, on devices with and     *)
(* without Toggle::UseTemporaryBufferInCompressedTextureToTextureCopy.     *)
(***************************************************************************)
CompressedViews == { ViewOf(s) : s \in { x \in Subresources : IsCompressed(x[1]) } }

\* The copy sizes validation accepts for a subresource of a compressed texture:
\* whole blocks, within the physical size of the level.
BlockCopySizesFor(tc) ==
    LET extent == GetMipLevelPhysicalSize(tc.texture, tc.mipLevel)
        block  == TextureTable[tc.texture].blockSize
    IN  { [width |-> w, height |-> h, depth |-> 1] :
              w \in { x \in 1..extent.width : x % block = 0 },
              h \in { y \in 1..extent.height : y % block = 0 } }

CompressedTextureCopies ==
    UNION { { [source |-> p[1], destination |-> p[2], copySize |-> e] :
                  e \in BlockCopySizesFor(p[1]) \cap BlockCopySizesFor(p[2]) } :
            p \in { q \in CompressedViews \X CompressedViews : q[1] # q[2] } }

NextCompressed ==
    \E copy \in CompressedTextureCopies : CopyTextureToTexture(copy) /\ UNCHANGED streamVars

InitCompressed ==
    /\ DeviceInit({"texC4", "texC12"}, FALSE, {"texC4", "texC12"}, {})
    /\ backend = "vulkan"
    /\ debugMarker = FALSE
    /\ useTemporaryBuffer \in BOOLEAN

SpecCompressed == InitCompressed /\ [][NextCompressed]_vars

(***************************************************************************)
(* SpecStream, SpecAccel: the record loops of RecordCommands.              *)
(* The stream is read one record at a time: the loop head reads the tag    *)
(* (NextCommandId), the arm of the tag reads the record (NextCommand) and  *)
(* its inline data (NextData).  cursor counts what the iterator has read,  *)
(* recordEnd what the encoder wrote for the records read so far; a record  *)
(* is a tag word, a struct word and one word per inline element.           *)
(***************************************************************************)
\* Words of a stream; no record starts at or after this position.
MaxStreamWords == 8

NextCommandId(c) == c + 1
NextCommand(c) == c + 1
NextData(c, count) == c + count

\* The inline data the encoder writes after the struct of a record.
InlineWords(cmd) ==
    IF cmd.type = "SetBindGroup" THEN BindGroupTable[cmd.group].dynamicOffsetCount
    ELSE IF cmd.type \in {"InsertDebugMarker", "PushDebugGroup"} THEN cmd.length + 1
    ELSE IF cmd.type = "ExecuteBundles" THEN cmd.count
    ELSE 0

RecordWords(cmd) == 2 + InlineWords(cmd)

\* SkipCommand(&mCommands, type): reads the struct and the inline data of the
\* record and drops them.
SkipCommand(c, cmd) == NextData(NextCommand(c), InlineWords(cmd))

\* The tags each loop has an arm for; every other tag takes the default arm.
DebugTags == {"InsertDebugMarker", "PopDebugGroup", "PushDebugGroup"}

TopLevelTags(b) ==
    {"CopyBufferToBuffer", "CopyBufferToTexture", "CopyTextureToBuffer",
     "CopyTextureToTexture", "BeginRenderPass", "BeginComputePass"}
    \cup (IF b = "vulkan"
          THEN {"BeginRayTracingPass", "BuildRayTracingAccelerationContainer",
                "CopyRayTracingAccelerationContainer",
                "UpdateRayTracingAccelerationContainer"}
          ELSE {})

ComputePassTags ==
    {"EndComputePass", "Dispatch", "DispatchIndirect", "SetBindGroup",
     "SetComputePipeline"} \cup DebugTags

RayTracingPassTags ==
    {"EndRayTracingPass", "TraceRays", "SetBindGroup", "SetRayTracingPipeline"}
    \cup DebugTags

RenderBundleTags ==
    {"Draw", "DrawIndexed", "DrawIndirect", "DrawIndexedIndirect", "SetBindGroup",
     "SetIndexBuffer", "SetRenderPipeline", "SetVertexBuffer"} \cup DebugTags

RenderPassTags ==
    RenderBundleTags \cup {"EndRenderPass", "SetBlendColor", "SetStencilReference",
                           "SetViewport", "SetScissorRect", "ExecuteBundles"}

ArmsOf(b, c) ==
    IF c = "top" THEN TopLevelTags(b)
    ELSE IF c = "compute" THEN ComputePassTags
    ELSE IF c = "raytracing" THEN RayTracingPassTags
    ELSE IF c = "render" THEN RenderPassTags
    ELSE RenderBundleTags

\* Tags a stream may hold where no arm takes them.
StrayTags ==
    {"Draw", "Dispatch", "EndRenderPass", "SetViewport", "BeginComputePass",
     "BuildRayTracingAccelerationContainer", "Unknown"}

\* Entry k of GetResourceUsages().perPass, for a pass that writes `written`.
PassResourceUsages(k, written) ==
    PassResourceUsage(written, IF k % 2 = 1 THEN Textures \ written ELSE {},
                      {"Sampled"}, {}, {})

StreamCopy == CHOOSE copy \in BufferToBufferCopies : TRUE
StreamPipeline == "PA"
StreamBindGroups == {"G2", "G3"}
LabelLengths == {0, 1}
BundleCounts == {1, 2}

\* A loop that reads on after an arm has returned an error.
Recording_AfterError == returned \in {"recording", "error"} /\ recordEnd < MaxStreamWords

\* The loop head found a record and no error has been returned.
Recording == returned = "recording" /\ recordEnd < MaxStreamWords

\* The arm read the record up to `read` and left RecordCommands in state `res`.
Consumed(read, res) ==
    /\ cursor' = read
    /\ recordEnd' = recordEnd + RecordWords(lastCmd')
    /\ returned' = res
    /\ UNCHANGED <<debugMarker, useTemporaryBuffer>>

KeepPasses == UNCHANGED <<nextPassNumber, passesOpened>>
KeepContainers ==
    UNCHANGED <<containers, hasBottomLevelContainerBuild, hasBottomLevelContainerUpdate,
                bottomLevelPending, validationError>>
KeepBundles == UNCHANGED <<bundlesLeft, executing, bundleIter, replayed>>

\* What a handler that applies the trackers returns.
ResultOf(out) ==
    IF \E k \in 1..Len(out) : out[k].op = "abort" THEN "fatal" ELSE "recording"

\* A handler of the stream layer alone: nothing but the instruction list, the
\* record and the stream state changes.
StreamOnly ==
    /\ UNCHANGED <<backend, useRenderPass, isInit, texState, bufState, renderPass,
                   nativePass, passReads>>
    /\ UNCHANGED bindVars
    /\ UNCHANGED drawVars

\* RecordCommands is called for the next command buffer of the device.
StartRecording ==
    /\ returned # "recording"
    /\ ctx' = "top"
    /\ Commit(IF backend = "d3d12" THEN Emit(St, [op |-> "SetDescriptorHeaps"]) ELSE St,
              [type |-> "RecordCommands"])
    /\ renderPass' = NoRenderPass
    /\ nativePass' = NoNativePass
    /\ passReads' = {}
    /\ validated' = NothingValidated
    /\ IF backend = "d3d12" THEN CommitTracker([NewTracker EXCEPT !.heap = heap])
       ELSE TrackerUnchanged
    /\ mInCompute' = IF backend = "d3d12" THEN FALSE ELSE mInCompute
    /\ returned' = "recording"
    /\ nextPassNumber' = 0
    /\ passesOpened' = 0
    /\ cursor' = 0
    /\ recordEnd' = 0
    /\ hasBottomLevelContainerBuild' = FALSE
    /\ hasBottomLevelContainerUpdate' = FALSE
    /\ bottomLevelPending' = FALSE
    /\ validationError' = ""
    /\ bundlesLeft' = 0
    /\ executing' = << >>
    /\ replayed' = << >>
    /\ UNCHANGED <<backend, useRenderPass, containers, debugMarker, useTemporaryBuffer,
                   bundleIter>>
    /\ UNCHANGED drawVars

\* A default arm that drops the record and goes on with the next one.
DefaultArm_Skips ==
    /\ Recording
    /\ \E tag \in StrayTags \ ArmsOf(backend, ctx) :
           /\ Commit(St, [type |-> tag])
           /\ Consumed(SkipCommand(NextCommandId(cursor), [type |-> tag]), "recording")
    /\ StreamOnly
    /\ UNCHANGED <<ctx, validated>>
    /\ KeepPasses /\ KeepContainers /\ KeepBundles

\* default: UNREACHABLE() of the loop that reads the tag
DefaultArm ==
    /\ Recording
    /\ \E tag \in StrayTags \ ArmsOf(backend, ctx) :
           /\ Commit(St, [type |-> tag])
           /\ Consumed(cursor + 1, "fatal")
    /\ StreamOnly
    /\ UNCHANGED <<ctx, validated>>
    /\ KeepPasses /\ KeepContainers /\ KeepBundles

\* NextCommandId finds no record.  At top level RecordCommands returns success.
\* In a pass, the d3d12 pass functions fall out of their loop and return
\* success, RecordCommands counts the pass and its own loop ends the same way;
\* the vulkan pass functions reach UNREACHABLE().
EndOfStream ==
    /\ returned = "recording"
    /\ ctx \in {"top", "compute", "render", "raytracing"}
    /\ Commit(St, [type |-> "EndOfStream"])
    /\ ctx' = IF backend = "d3d12" THEN "top" ELSE ctx
    /\ returned' = IF ctx = "top" \/ backend = "d3d12" THEN "success" ELSE "fatal"
    /\ nextPassNumber' = IF ctx # "top" /\ backend = "d3d12" THEN nextPassNumber + 1
                         ELSE nextPassNumber
    /\ StreamOnly
    /\ UNCHANGED <<validated, passesOpened, cursor, recordEnd, debugMarker, useTemporaryBuffer>>
    /\ KeepContainers /\ KeepBundles

\* case Command::CopyBufferToBuffer of RecordCommands
RecordCopy ==
    /\ Recording
    /\ ctx = "top"
    /\ CopyBufferToBuffer(StreamCopy)
    /\ Consumed(NextCommand(NextCommandId(cursor)), "recording")
    /\ KeepPasses /\ KeepContainers /\ KeepBundles

\* case Command::BeginComputePass of RecordCommands
OpenComputePass ==
    /\ Recording
    /\ ctx = "top"
    /\ BeginComputePass(PassResourceUsages(nextPassNumber, {}))
    /\ Consumed(NextCommand(NextCommandId(cursor)), "recording")
    /\ passesOpened' = passesOpened + 1
    /\ UNCHANGED nextPassNumber
    /\ KeepContainers /\ KeepBundles

\* case Command::BeginRenderPass of RecordCommands
OpenRenderPass ==
    /\ Recording
    /\ ctx = "top"
    /\ BeginRenderPass(DrawRenderPassCmd,
                       PassResourceUsages(nextPassNumber,
                                          AttachmentTextures(DrawRenderPassCmd)))
    /\ Consumed(NextCommand(NextCommandId(cursor)), "recording")
    /\ passesOpened' = passesOpened + 1
    /\ UNCHANGED nextPassNumber
    /\ KeepContainers /\ KeepBundles

\* vulkan case Command::BeginRenderPass where CreateFramebuffer fails:
\* DAWN_TRY in RecordBeginRenderPass, in RecordRenderPass and in RecordCommands.
OpenRenderPassFails ==
    /\ Recording
    /\ backend = "vulkan"
    /\ TopLevel
    /\ LET usages == PassResourceUsages(nextPassNumber,
                                        AttachmentTextures(DrawRenderPassCmd))
       IN  Commit(RecordBeginRenderPassError(TransitionForPass(St, usages),
                                             DrawRenderPassCmd),
                  [type |-> "BeginRenderPass", cmd |-> DrawRenderPassCmd,
                   usages |-> usages])
    /\ Consumed(NextCommand(NextCommandId(cursor)), "error")
    /\ passesOpened' = passesOpened + 1
    /\ UNCHANGED nextPassNumber
    /\ KeepContainers /\ KeepBundles

\* A compute pass that RecordCommands does not count.
CloseComputePass_NotCounted ==
    /\ Recording
    /\ EndComputePass
    /\ Consumed(NextCommand(NextCommandId(cursor)), "recording")
    /\ KeepPasses /\ KeepContainers /\ KeepBundles

\* case Command::EndComputePass: RecordComputePass returns, RecordCommands
\* counts the pass.
CloseComputePass ==
    /\ Recording
    /\ EndComputePass
    /\ Consumed(NextCommand(NextCommandId(cursor)), "recording")
    /\ nextPassNumber' = nextPassNumber + 1
    /\ UNCHANGED passesOpened
    /\ KeepContainers /\ KeepBundles

\* case Command::EndRenderPass: RecordRenderPass returns, RecordCommands counts
\* the pass.
CloseRenderPass ==
    /\ Recording
    /\ EndRenderPass
    /\ Consumed(NextCommand(NextCommandId(cursor)), "recording")
    /\ nextPassNumber' = nextPassNumber + 1
    /\ UNCHANGED passesOpened
    /\ KeepContainers /\ KeepBundles

\* case Command::SetComputePipeline, case Command::SetRenderPipeline
RecordSetPipeline ==
    /\ Recording
    /\ ctx \in {"compute", "render"}
    /\ SetPipeline(StreamPipeline)
    /\ Consumed(NextCommand(NextCommandId(cursor)), "recording")
    /\ KeepPasses /\ KeepContainers /\ KeepBundles

\* A SetBindGroup arm that leaves the dynamic offsets in the stream.
SetBindGroupRead_NoOffsets(c, dynamicOffsetCount) == NextCommand(c)

\* What case Command::SetBindGroup reads: the dynamic offsets only when the
\* record has some.
SetBindGroupRead(c, dynamicOffsetCount) ==
    IF dynamicOffsetCount > 0 THEN NextData(NextCommand(c), dynamicOffsetCount)
    ELSE NextCommand(c)

\* case Command::SetBindGroup of the pass loops
RecordSetBindGroup ==
    /\ Recording
    /\ ctx \in {"compute", "render", "raytracing"}
    /\ \E group \in StreamBindGroups :
           /\ SetBindGroup(0, group)
           /\ Consumed(SetBindGroupRead(NextCommandId(cursor),
                                        BindGroupTable[group].dynamicOffsetCount),
                       "recording")
    /\ KeepPasses /\ KeepContainers /\ KeepBundles

\* case Command::Dispatch
RecordDispatch ==
    /\ Recording
    /\ DrawValidated
    /\ Dispatch
    /\ Consumed(NextCommand(NextCommandId(cursor)), ResultOf(emitted'))
    /\ KeepPasses /\ KeepContainers /\ KeepBundles

\* What the arm of a debug record reads.  vulkan without the debug marker
\* extension skips the record; d3d12 reads it whether PIX is loaded or not.
DebugRead(c, cmd) ==
    IF backend = "vulkan" /\ ~debugMarker THEN SkipCommand(c, cmd)
    ELSE IF cmd.type = "PopDebugGroup" THEN NextCommand(c)
    ELSE NextData(NextCommand(c), cmd.length + 1)

DebugInstruction(cmd) ==
    IF backend = "vulkan"
    THEN (IF cmd.type = "InsertDebugMarker" THEN "CmdDebugMarkerInsertEXT"
          ELSE IF cmd.type = "PopDebugGroup" THEN "CmdDebugMarkerEndEXT"
          ELSE "CmdDebugMarkerBeginEXT")
    ELSE (IF cmd.type = "InsertDebugMarker" THEN "pixSetMarkerOnCommandList"
          ELSE IF cmd.type = "PopDebugGroup" THEN "pixEndEventOnCommandList"
          ELSE "pixBeginEventOnCommandList")

DebugRecords ==
    { [type |-> t, length |-> n] : t \in {"InsertDebugMarker", "PushDebugGroup"},
                                   n \in LabelLengths }
    \cup { [type |-> "PopDebugGroup"] }

\* case Command::InsertDebugMarker, PopDebugGroup, PushDebugGroup of a pass loop
RecordDebug ==
    /\ Recording
    /\ ctx \in {"compute", "render", "raytracing"}
    /\ \E cmd \in DebugRecords :
           /\ Commit(IF debugMarker THEN Emit(St, [op |-> DebugInstruction(cmd)]) ELSE St,
                     cmd)
           /\ Consumed(DebugRead(NextCommandId(cursor), cmd), "recording")
    /\ StreamOnly
    /\ UNCHANGED <<ctx, validated>>
    /\ KeepPasses /\ KeepContainers /\ KeepBundles

\* CommandIterator::Reset: the iterator hands out the first record next.
ResetIterator_Missing(iter, b) == iter

ResetIterator(iter, b) == [iter EXCEPT ![b] = 0]

\* The bundle whose records the loop of ExecuteBundles is handing out.
CurrentBundle == executing[Len(executing) - bundlesLeft + 1]

\* case Command::ExecuteBundles: the record and the bundle references are
\* read, the iterator of the first bundle is reset.
ExecuteBundles(bundles) ==
    /\ Recording
    /\ ctx = "render"
    /\ Commit(St, [type |-> "ExecuteBundles", count |-> Len(bundles)])
    /\ Consumed(NextData(NextCommand(NextCommandId(cursor)), Len(bundles)), "recording")
    /\ bundlesLeft' = Len(bundles)
    /\ executing' = bundles
    /\ bundleIter' = ResetIterator(bundleIter, bundles[1])
    /\ replayed' = << >>
    /\ ctx' = "bundle"
    /\ StreamOnly
    /\ UNCHANGED validated
    /\ KeepPasses /\ KeepContainers

\* ExecuteBundles of empty bundles.
RecordExecuteBundles ==
    \E count \in BundleCounts : ExecuteBundles([ i \in 1..count |-> "B0" ])

\* EncodeRenderBundleCommand(iter, type) for the next record of the bundle: the
\* arm of the record, over the trackers of the pass; the stream of the pass is
\* not read.
ReplayBundleRecord ==
    /\ returned = "recording"
    /\ ctx = "bundle"
    /\ bundleIter[CurrentBundle] < Len(BundleTable[CurrentBundle])
    /\ LET rec == BundleTable[CurrentBundle][bundleIter[CurrentBundle] + 1]
       IN  CASE rec.type = "SetPipeline" -> SetPipeline(rec.pipeline)
             [] rec.type = "SetBindGroup" -> SetBindGroup(rec.index, rec.group)
             [] rec.type = "Draw" -> Draw
    /\ bundleIter' = [bundleIter EXCEPT ![CurrentBundle] = @ + 1]
    /\ replayed' = Append(replayed, <<CurrentBundle, bundleIter[CurrentBundle] + 1>>)
    /\ returned' = ResultOf(emitted')
    /\ UNCHANGED <<cursor, recordEnd, debugMarker, useTemporaryBuffer, bundlesLeft, executing>>
    /\ KeepPasses /\ KeepContainers

\* iter->NextCommandId finds no record in the bundle: the next bundle, its
\* iterator reset, or the pass loop again.
EndOfBundle ==
    /\ returned = "recording"
    /\ ctx = "bundle"
    /\ bundleIter[CurrentBundle] = Len(BundleTable[CurrentBundle])
    /\ Commit(St, [type |-> "EndOfBundle"])
    /\ bundlesLeft' = bundlesLeft - 1
    /\ ctx' = IF bundlesLeft = 1 THEN "render" ELSE "bundle"
    /\ bundleIter' = IF bundlesLeft = 1 THEN bundleIter
                     ELSE ResetIterator(bundleIter,
                                        executing[Len(executing) - bundlesLeft + 2])
    /\ executing' = IF bundlesLeft = 1 THEN << >> ELSE executing
    /\ replayed' = IF bundlesLeft = 1 THEN << >> ELSE replayed
    /\ StreamOnly
    /\ UNCHANGED <<validated, returned, cursor, recordEnd, debugMarker, useTemporaryBuffer>>
    /\ KeepPasses /\ KeepContainers

\* A record of a bundle that EncodeRenderBundleCommand has no arm for.
BundleDefaultArm ==
    /\ returned = "recording"
    /\ ctx = "bundle"
    /\ \E tag \in StrayTags \ RenderBundleTags : Commit(St, [type |-> tag])
    /\ returned' = "fatal"
    /\ StreamOnly
    /\ UNCHANGED <<ctx, validated, cursor, recordEnd, debugMarker, useTemporaryBuffer>>
    /\ KeepPasses /\ KeepContainers /\ KeepBundles

NextStream ==
    \/ StartRecording
    \/ DefaultArm
    \/ EndOfStream
    \/ RecordCopy
    \/ OpenComputePass
    \/ OpenRenderPass
    \/ OpenRenderPassFails
    \/ CloseComputePass
    \/ CloseRenderPass
    \/ RecordSetPipeline
    \/ RecordSetBindGroup
    \/ RecordDispatch
    \/ RecordDebug
    \/ RecordExecuteBundles
    \/ EndOfBundle
    \/ BundleDefaultArm

InitStream ==
    /\ DeviceInit({"texS", "texB"}, TRUE, {}, {})
    /\ useRenderPass = (backend = "d3d12")
    /\ debugMarker \in BOOLEAN
    /\ useTemporaryBuffer = TRUE

SpecStream == InitStream /\ [][NextStream]_vars

(***************************************************************************)
(* SpecHeaps: d3d12 recordings one after the other over the same           *)
(* shader-visible heaps: the pass bodies of SpecBind, the end of the       *)
(* stream and the entry of the next RecordCommands.                        *)
(***************************************************************************)
NextHeaps ==
    \/ returned = "recording" /\ NextBind
    \/ EndOfStream
    \/ StartRecording

InitHeaps == InitBind /\ backend = "d3d12"

SpecHeaps == InitHeaps /\ [][NextHeaps]_vars

(***************************************************************************)
(* SpecBundles: render passes that execute render bundles, over several    *)
(* recordings; the bundles live across the recordings.                     *)
(***************************************************************************)
BundleLists ==
    { << "B1" >>, << "B2" >>, << "B1", "B1" >>, << "B1", "B2" >>, << "B2", "B0", "B1" >> }

NextBundles ==
    \/ StartRecording
    \/ EndOfStream
    \/ OpenRenderPass
    \/ CloseRenderPass
    \/ RecordSetBindGroup
    \/ \E bundles \in BundleLists : ExecuteBundles(bundles)
    \/ ReplayBundleRecord
    \/ EndOfBundle

InitBundles == InitStream /\ debugMarker = FALSE

SpecBundles == InitBundles /\ [][NextBundles]_vars

\* ---------------------------------------------------------------------------
\* SpecAccel: the vulkan top-level loop with the acceleration container
\* records and the ray tracing pass.
\* ---------------------------------------------------------------------------
\* The acceleration container state a handler works on, threaded as a record
\* acc = [containers, hasBuild, hasUpdate].
Acc ==
    [containers |-> containers, hasBuild |-> hasBottomLevelContainerBuild,
     hasUpdate |-> hasBottomLevelContainerUpdate]

\* Whether a bottom-level build or update is left without a memory barrier
\* after it, once the instructions out[k..] have followed.
RECURSIVE PendingAfter(_, _, _)
PendingAfter(pending, out, k) ==
    IF k > Len(out) THEN pending
    ELSE PendingAfter(
             IF out[k].op = "CmdPipelineBarrier" THEN FALSE
             ELSE IF out[k].op = "CmdBuildAccelerationStructureNV"
                     /\ out[k].level = "Bottom" THEN TRUE
             ELSE pending,
             out, k + 1)

CommitContainers(acc) ==
    /\ containers' = acc.containers
    /\ hasBottomLevelContainerBuild' = acc.hasBuild
    /\ hasBottomLevelContainerUpdate' = acc.hasUpdate
    /\ bottomLevelPending' = PendingAfter(bottomLevelPending, emitted', 1)

BuildBarrier(dstRayTracingShader) ==
    [op |-> "CmdPipelineBarrier", src |-> "ACCELERATION_STRUCTURE_BUILD",
     dstRayTracingShader |-> dstRayTracingShader]

BuildInstruction(c, update) ==
    [op |-> "CmdBuildAccelerationStructureNV", container |-> c, update |-> update,
     level |-> ContainerTable[c].level]

\* A build that goes on although the container is built.
BuildContainer_Rebuilds(st, acc, c) ==
    [st |-> Emit(st, BuildInstruction(c, FALSE)),
     acc |-> [acc EXCEPT !.containers[c].built = TRUE],
     result |-> "success"]

\* case Command::BuildRayTracingAccelerationContainer: [st, acc, result]
BuildContainer(st, acc, c) ==
    IF acc.containers[c].built
    THEN [st |-> st, acc |-> acc, result |-> "error",
          message |-> "Acceleration Container is already built"]
    ELSE IF ContainerTable[c].level = "Bottom"
    THEN [st |-> Emit(st, BuildInstruction(c, FALSE)),
          acc |-> [acc EXCEPT !.containers[c].built = TRUE, !.hasBuild = TRUE],
          result |-> "success"]
    ELSE LET s1 == IF acc.hasBuild THEN Emit(st, BuildBarrier(FALSE)) ELSE st
             s2 == Emit(s1, BuildInstruction(c, FALSE))
             s3 == Emit(s2, BuildBarrier(TRUE))
         IN  [st |-> s3, acc |-> [acc EXCEPT !.containers[c].built = TRUE],
              result |-> "success"]

\* An update that does not ask whether the container is built.
UpdateContainer_Unbuilt(st, acc, c) ==
    IF ~ContainerTable[c].allowUpdate
    THEN [st |-> st, acc |-> acc, result |-> "error",
          message |-> "Acceleration Container does not support Updates"]
    ELSE LET a1 == IF ~acc.containers[c].updated
                   THEN [acc EXCEPT !.containers[c].scratchBuild = FALSE,
                                    !.containers[c].updated = TRUE]
                   ELSE acc
         IN  [st |-> Emit(st, BuildInstruction(c, TRUE)),
              acc |-> IF ContainerTable[c].level = "Bottom"
                      THEN [a1 EXCEPT !.hasUpdate = TRUE] ELSE a1,
              result |-> "success"]

\* An update that asks whether the container is built before it asks whether
\* it allows updates.
UpdateContainer_BuiltCheckedFirst(st, acc, c) ==
    IF ~acc.containers[c].built
    THEN [st |-> st, acc |-> acc, result |-> "error",
          message |-> "Acceleration Container must be built before updating"]
    ELSE UpdateContainer_Unbuilt(st, acc, c)

\* case Command::UpdateRayTracingAccelerationContainer: [st, acc, result]
UpdateContainer(st, acc, c) ==
    IF ~ContainerTable[c].allowUpdate
    THEN [st |-> st, acc |-> acc, result |-> "error",
          message |-> "Acceleration Container does not support Updates"]
    ELSE IF ~acc.containers[c].built
    THEN [st |-> st, acc |-> acc, result |-> "error",
          message |-> "Acceleration Container must be built before updating"]
    ELSE LET a1 == IF acc.containers[c].built /\ ~acc.containers[c].updated
                   THEN [acc EXCEPT !.containers[c].scratchBuild = FALSE,
                                    !.containers[c].updated = TRUE]
                   ELSE acc
         IN  IF ContainerTable[c].level = "Bottom"
             THEN [st |-> Emit(st, BuildInstruction(c, TRUE)),
                   acc |-> [a1 EXCEPT !.hasUpdate = TRUE],
                   result |-> "success"]
             ELSE LET s1 == IF a1.hasUpdate THEN Emit(st, BuildBarrier(FALSE)) ELSE st
                      s2 == Emit(s1, BuildInstruction(c, TRUE))
                      s3 == Emit(s2, BuildBarrier(TRUE))
                  IN  [st |-> s3, acc |-> a1, result |-> "success"]

\* The message of the error an arm returned, none when it succeeded.
ErrorOf(r) == IF r.result = "error" THEN r.message ELSE validationError

\* What the loop does with the result of an arm: go on with the next record, or
\* return the error (return DAWN_VALIDATION_ERROR, DAWN_TRY).
ReturnedBy(result) == IF result = "success" THEN "recording" ELSE result

\* A top-level record of the stream layer that is not a pass.
TopLevelStream ==
    /\ Recording
    /\ TopLevel
    /\ KeepPasses /\ KeepBundles

RecordBuildContainer ==
    /\ backend = "vulkan"
    /\ TopLevelStream
    /\ \E c \in Containers :
         \E r \in { BuildContainer(St, Acc, c) } :
           /\ Commit(r.st, [type |-> "BuildRayTracingAccelerationContainer",
                            container |-> c])
           /\ CommitContainers(r.acc)
           /\ validationError' = ErrorOf(r)
           /\ Consumed(NextCommand(NextCommandId(cursor)),
                       ReturnedBy(r.result))

RecordUpdateContainer ==
    /\ backend = "vulkan"
    /\ TopLevelStream
    /\ \E c \in Containers :
         \E r \in { UpdateContainer(St, Acc, c) } :
           /\ Commit(r.st, [type |-> "UpdateRayTracingAccelerationContainer",
                            container |-> c])
           /\ CommitContainers(r.acc)
           /\ validationError' = ErrorOf(r)
           /\ Consumed(NextCommand(NextCommandId(cursor)),
                       ReturnedBy(r.result))

\* case Command::CopyRayTracingAccelerationContainer
RecordCopyContainer ==
    /\ backend = "vulkan"
    /\ TopLevelStream
    /\ \E src \in Containers : \E dst \in Containers \ {src} :
           Commit(Emit(St, [op |-> "CmdCopyAccelerationStructureNV", src |-> src,
                            dst |-> dst]),
                  [type |-> "CopyRayTracingAccelerationContainer", src |-> src,
                   dst |-> dst])
    /\ Consumed(NextCommand(NextCommandId(cursor)), "recording")
    /\ KeepContainers

\* case Command::BeginRayTracingPass of RecordCommands, up to the record loop of
\* RecordRayTracingPass
OpenRayTracingPass ==
    /\ Recording
    /\ backend = "vulkan"
    /\ ctx = "top"
    /\ LET usages == PassResourceUsages(nextPassNumber, {})
       IN  /\ Commit(TransitionForPass(St, usages),
                     [type |-> "BeginRayTracingPass", usages |-> usages])
           /\ passReads' = ReadTextures(usages)
    /\ ctx' = "raytracing"
    /\ renderPass' = NoRenderPass
    /\ nativePass' = NoNativePass
    /\ validated' = NothingValidated
    /\ CommitTracker(NewTracker)
    /\ UNCHANGED <<backend, useRenderPass, mInCompute>>
    /\ UNCHANGED drawVars
    /\ Consumed(NextCommand(NextCommandId(cursor)), "recording")
    /\ passesOpened' = passesOpened + 1
    /\ UNCHANGED nextPassNumber
    /\ KeepContainers /\ KeepBundles

\* A record of the ray tracing loop: the pass stays open.
InRayTracingPass ==
    /\ Recording
    /\ ctx = "raytracing"
    /\ UNCHANGED <<backend, useRenderPass, ctx, renderPass, nativePass, passReads,
                   mInCompute>>
    /\ UNCHANGED drawVars
    /\ KeepPasses /\ KeepContainers /\ KeepBundles

\* case Command::SetRayTracingPipeline
RecordSetRayTracingPipeline ==
    /\ InRayTracingPass
    /\ Commit(Emit(St, [op |-> "CmdBindPipeline", bindPoint |-> "RAY_TRACING_NV",
                        pipeline |-> StreamPipeline]),
              [type |-> "SetRayTracingPipeline", pipeline |-> StreamPipeline,
               layout |-> PipelineTable[StreamPipeline].layout])
    /\ CommitTracker(OnSetPipelineInherit(Tr, PipelineTable[StreamPipeline].layout))
    /\ validated' = [validated EXCEPT !.pipeline = TRUE]
    /\ Consumed(NextCommand(NextCommandId(cursor)), "recording")

\* case Command::TraceRays
RecordTraceRays ==
    /\ InRayTracingPass
    /\ DrawValidated
    /\ \E a \in { DescriptorSetTrackerApply(St, Tr, TRUE) } :
           /\ Commit(Emit(a.st, [op |-> "CmdTraceRaysNV"]), [type |-> "TraceRays"])
           /\ CommitTracker(a.tr)
    /\ UNCHANGED validated
    /\ Consumed(NextCommand(NextCommandId(cursor)), "recording")

\* case Command::EndRayTracingPass: RecordRayTracingPass returns, RecordCommands
\* counts the pass.
CloseRayTracingPass ==
    /\ Recording
    /\ ctx = "raytracing"
    /\ Commit(St, [type |-> "EndRayTracingPass"])
    /\ ctx' = "top"
    /\ passReads' = {}
    /\ validated' = NothingValidated
    /\ UNCHANGED <<backend, useRenderPass, renderPass, nativePass, mInCompute>>
    /\ UNCHANGED drawVars
    /\ TrackerUnchanged
    /\ Consumed(NextCommand(NextCommandId(cursor)), "recording")
    /\ nextPassNumber' = nextPassNumber + 1
    /\ UNCHANGED passesOpened
    /\ KeepContainers /\ KeepBundles

NextAccel ==
    \/ StartRecording
    \/ DefaultArm
    \/ EndOfStream
    \/ RecordBuildContainer
    \/ RecordUpdateContainer
    \/ RecordCopyContainer
    \/ OpenRayTracingPass
    \/ RecordSetRayTracingPipeline
    \/ RecordSetBindGroup
    \/ RecordTraceRays
    \/ RecordDebug
    \/ CloseRayTracingPass

InitAccel ==
    /\ DeviceInit({"texS", "texB"}, TRUE, {}, {})
    /\ backend = "vulkan"
    /\ debugMarker \in BOOLEAN
    /\ useTemporaryBuffer = TRUE

SpecAccel == InitAccel /\ [][NextAccel]_vars

(***************************************************************************)
(* Properties of the render pass assembler (SpecPass).                     *)
(***************************************************************************)
\* The step in which a BeginRenderPass record is consumed: lastCmd' holds the
\* record as the stream gave it, isInit the flags before the pass.
BeginRenderPassStep == ctx = "top" /\ ctx' = "render"

\* Nothing inside a render pass, nor its end, changes an initialization flag.
PassKeepsFlags == ctx = "render" => isInit' = isInit

\* A load of content that is not there: the attachment asks for Load and its
\* subresource is not marked initialized.
ColorLoadOfUninitialized(init, att) ==
    att.loadOp = "Load" /\ ~ViewInitialized(init, att.view)
DepthLoadOfUninitialized(init, att) ==
    /\ HasDepth(att.view.texture)
    /\ att.depthLoadOp = "Load"
    /\ ~ViewInitialized(init, att.view)
StencilLoadOfUninitialized(init, att) ==
    /\ HasStencil(att.view.texture)
    /\ att.stencilLoadOp = "Load"
    /\ ~ViewInitialized(init, att.view)

\* C2: for every colour and depth/stencil attachment of a render pass, a requested
\* Load on a subresource not marked initialized when the pass begins is recorded
\* as Clear in the native pass; with storeOp Store the subresource is marked
\* valid, and it still is after EndRenderPass (no step of the pass changes flags).
C2_LoadOpUpgrade ==
    [][ /\ BeginRenderPassStep =>
            LET cmd == lastCmd'.cmd
            IN  /\ \A i \in 1..Len(cmd.colorAttachments) :
                       ColorLoadOfUninitialized(isInit, cmd.colorAttachments[i]) =>
                           /\ nativePass'.color[i].loadOp = "Clear"
                           /\ cmd.colorAttachments[i].storeOp = "Store" =>
                                  ViewInitialized(isInit', cmd.colorAttachments[i].view)
                /\ \A i \in 1..Len(cmd.depthStencil) :
                       /\ DepthLoadOfUninitialized(isInit, cmd.depthStencil[i]) =>
                              nativePass'.depthStencil[i].depthLoadOp = "Clear"
                       /\ StencilLoadOfUninitialized(isInit, cmd.depthStencil[i]) =>
                              nativePass'.depthStencil[i].stencilLoadOp = "Clear"
        /\ PassKeepsFlags ]_vars

\* C2 witness: an open vulkan pass whose colour attachment asked for Load on an
\* uninitialized subresource, was recorded with Clear, stores, and is now valid.
C2_Witness ==
    /\ backend = "vulkan"
    /\ ctx = "render"
    /\ Len(nativePass.color) = 1
    /\ nativePass.color[1].requestedLoadOp = "Load"
    /\ ~nativePass.color[1].wasInit
    /\ nativePass.color[1].loadOp = "Clear"
    /\ renderPass.colorAttachments[1].storeOp = "Store"
    /\ ViewInitialized(isInit, nativePass.color[1].view)

\* C3 (as claimed): when a Load is upgraded to Clear because the subresource is
\* uninitialized, the clear value handed to the native pass is zero, for colour,
\* depth and stencil, whatever clear value the record carried.
C3_UpgradedClearValueIsZero ==
    [][ BeginRenderPassStep =>
            LET cmd == lastCmd'.cmd
            IN  /\ \A i \in 1..Len(cmd.colorAttachments) :
                       ColorLoadOfUninitialized(isInit, cmd.colorAttachments[i]) =>
                           nativePass'.color[i].clearValue = 0
                /\ \A i \in 1..Len(cmd.depthStencil) :
                       /\ DepthLoadOfUninitialized(isInit, cmd.depthStencil[i]) =>
                              nativePass'.depthStencil[i].clearDepth = 0
                       /\ StencilLoadOfUninitialized(isInit, cmd.depthStencil[i]) =>
                              nativePass'.depthStencil[i].clearStencil = 0 ]_vars

\* The flag a store operation asks for: Store keeps the content, Clear discards it.
BothStore(att) == att.depthStoreOp = "Store" /\ att.stencilStoreOp = "Store"
BothDiscard(att) == att.depthStoreOp = "Clear" /\ att.stencilStoreOp = "Clear"

\* C4 (as claimed): an attachment requested with Load against an uninitialized
\* subresource is recorded with an effective clear and its subresource is marked
\* valid by the pass, for every store operation.
C4_ValidForEveryStoreOp ==
    [][ BeginRenderPassStep =>
            LET cmd == lastCmd'.cmd
            IN  /\ \A i \in 1..Len(cmd.colorAttachments) :
                       ColorLoadOfUninitialized(isInit, cmd.colorAttachments[i]) =>
                           /\ nativePass'.color[i].loadOp = "Clear"
                           /\ ViewInitialized(isInit', cmd.colorAttachments[i].view)
                /\ \A i \in 1..Len(cmd.depthStencil) :
                       ( DepthLoadOfUninitialized(isInit, cmd.depthStencil[i])
                         \/ StencilLoadOfUninitialized(isInit, cmd.depthStencil[i]) ) =>
                           ViewInitialized(isInit', cmd.depthStencil[i].view) ]_vars

\* C4 (amended): an attachment requested with Load against an uninitialized
\* subresource is recorded with an effective clear; the pass marks the subresource
\* valid when the store operation is Store (for depth/stencil: when both are) and
\* invalid when it is the discarding one (for depth/stencil: when both are).
C4_ValidWhenStored ==
    [][ /\ BeginRenderPassStep =>
            LET cmd == lastCmd'.cmd
            IN  /\ \A i \in 1..Len(cmd.colorAttachments) :
                       ColorLoadOfUninitialized(isInit, cmd.colorAttachments[i]) =>
                           /\ nativePass'.color[i].loadOp = "Clear"
                           /\ ViewInitialized(isInit', cmd.colorAttachments[i].view)
                                  = (cmd.colorAttachments[i].storeOp = "Store")
                /\ \A i \in 1..Len(cmd.depthStencil) :
                       LET att == cmd.depthStencil[i]
                       IN  /\ DepthLoadOfUninitialized(isInit, att) =>
                                  nativePass'.depthStencil[i].depthLoadOp = "Clear"
                           /\ StencilLoadOfUninitialized(isInit, att) =>
                                  nativePass'.depthStencil[i].stencilLoadOp = "Clear"
                           /\ ( DepthLoadOfUninitialized(isInit, att)
                                \/ StencilLoadOfUninitialized(isInit, att) ) =>
                                  /\ BothStore(att) => ViewInitialized(isInit', att.view)
                                  /\ BothDiscard(att) => ~ViewInitialized(isInit', att.view)
        /\ PassKeepsFlags ]_vars

\* C4 witness: an open pass whose depth/stencil attachment asked to load both
\* aspects of an uninitialized subresource; both were recorded as Clear, both are
\* stored, and the subresource is valid.
C4_Witness ==
    /\ ctx = "render"
    /\ Len(nativePass.depthStencil) = 1
    /\ ~nativePass.depthStencil[1].wasInit
    /\ nativePass.depthStencil[1].requestedDepthLoadOp = "Load"
    /\ nativePass.depthStencil[1].requestedStencilLoadOp = "Load"
    /\ nativePass.depthStencil[1].depthLoadOp = "Clear"
    /\ nativePass.depthStencil[1].stencilLoadOp = "Clear"
    /\ BothStore(renderPass.depthStencil[1])
    /\ ViewInitialized(isInit, nativePass.depthStencil[1].view)

\* C5 (as claimed): the pass sets each attachment's flag from its store operation
\* alone, whatever the flag and the load operation were: valid when the content
\* is stored, invalid when it is discarded (for a depth/stencil attachment, which
\* has one flag for two aspects: invalid when an aspect is discarded).
C5_FlagFromStoreOp ==
    [][ BeginRenderPassStep =>
            LET cmd == lastCmd'.cmd
            IN  /\ \A i \in 1..Len(cmd.colorAttachments) :
                       ViewInitialized(isInit', cmd.colorAttachments[i].view)
                           = (cmd.colorAttachments[i].storeOp = "Store")
                /\ \A i \in 1..Len(cmd.depthStencil) :
                       ViewInitialized(isInit', cmd.depthStencil[i].view)
                           = BothStore(cmd.depthStencil[i]) ]_vars

\* C6: every resolve target of a render pass is marked initialized by the pass,
\* whatever the store operation of its colour attachment and whatever its flag
\* was, and stays so until after EndRenderPass.
C6_ResolveTargetInitialized ==
    [][ /\ BeginRenderPassStep =>
            \A i \in 1..Len(lastCmd'.cmd.colorAttachments) :
                lastCmd'.cmd.colorAttachments[i].resolveTarget # NoView =>
                    ViewInitialized(isInit', lastCmd'.cmd.colorAttachments[i].resolveTarget)
        /\ PassKeepsFlags ]_vars

\* C6 witness: an open pass with a resolve target whose colour attachment
\* discards its content: the attachment is invalid, the resolve target valid.
C6_Witness ==
    /\ ctx = "render"
    /\ Len(renderPass.colorAttachments) = 1
    /\ renderPass.colorAttachments[1].resolveTarget # NoView
    /\ renderPass.colorAttachments[1].storeOp = "Clear"
    /\ ~ViewInitialized(isInit, renderPass.colorAttachments[1].view)
    /\ ViewInitialized(isInit, renderPass.colorAttachments[1].resolveTarget)

(***************************************************************************)
(* Properties of the initialization tracking of copies and passes (Spec).  *)
(***************************************************************************)
TextureSourceCopies == {"CopyTextureToBuffer", "CopyTextureToTexture"}
TextureDestinationCopies == {"CopyBufferToTexture", "CopyTextureToTexture"}

CopyStep(types) == ctx = "top" /\ ctx' = "top" /\ lastCmd'.type \in types

\* The clears among the instructions out that cover the subresource of view.
ClearsOf(out, view) ==
    { k \in 1..Len(out) :
          /\ out[k].op = "ClearTexture"
          /\ InRange(SubresourceOf(view), out[k].texture, out[k].baseMip,
                     out[k].levelCount, out[k].baseLayer, out[k].layerCount) }

\* The subresources a copy may touch the flag of.
CopySubresources(cmd) ==
    { SubresourceOf(cmd.copy.destination) } \cup
    (IF cmd.type = "CopyTextureToTexture" THEN { SubresourceOf(cmd.copy.source) } ELSE {})

\* C8: a CopyTextureToTexture or CopyBufferToTexture whose extent is the full
\* extent of the destination subresource emits no clear for the destination and
\* marks that one (mip, layer) valid, and no other flag changes (but the source's);
\* a partial copy ensures the destination initialized: a clear of it is emitted
\* exactly when it was not valid, and it is valid afterwards.
C8_FullCopySkipsClear ==
    [][ CopyStep(TextureDestinationCopies) =>
            LET dst == lastCmd'.copy.destination
                full == IsCompleteSubresourceCopiedTo(dst.texture, lastCmd'.copy.copySize,
                                                      dst.mipLevel)
            IN  /\ full => ClearsOf(emitted', dst) = {}
                /\ ~full => (ClearsOf(emitted', dst) # {}) = ~ViewInitialized(isInit, dst)
                /\ ViewInitialized(isInit', dst)
                /\ \A sub \in Subresources \ CopySubresources(lastCmd') :
                       isInit'[sub] = isInit[sub] ]_vars

\* C8 witness: a buffer was copied over the whole of mip 0 of texA while mip 1 had
\* never been written: no clear, mip 0 valid, mip 1 still not.
C8_Witness ==
    /\ lastCmd.type = "CopyBufferToTexture"
    /\ lastCmd.copy.destination = [texture |-> "texA", mipLevel |-> 0, arrayLayer |-> 0]
    /\ IsCompleteSubresourceCopiedTo("texA", lastCmd.copy.copySize, 0)
    /\ Len(emitted) = 1
    /\ isInit[<<"texA", 0, 0>>]
    /\ ~isInit[<<"texA", 1, 0>>]

\* C9: ensuring initialized a range that is valid emits nothing; a range that is
\* not gets exactly one clear, of that range, and is valid afterwards; so a
\* following call on the same range emits nothing.  Observed where a
\* texture-to-buffer copy ensures its source.
C9_EnsureInitializedMonotone ==
    [][ CopyStep({"CopyTextureToBuffer"}) =>
            LET src == lastCmd'.copy.source
                clears == { k \in 1..Len(emitted') : emitted'[k].op = "ClearTexture" }
            IN  /\ ViewInitialized(isInit, src) => clears = {}
                /\ ~ViewInitialized(isInit, src) =>
                       /\ Cardinality(clears) = 1
                       /\ ClearsOf(emitted', src) = clears
                /\ ViewInitialized(isInit', src)
                /\ (lastCmd.type = "CopyTextureToBuffer" /\ lastCmd.copy.source = src) =>
                       clears = {} ]_vars

\* C9 witness: the second of two texture-to-buffer copies from texB layer 1: the
\* source is valid and only the copy is emitted.
C9_Witness ==
    /\ lastCmd.type = "CopyTextureToBuffer"
    /\ lastCmd.copy.source = [texture |-> "texB", mipLevel |-> 0, arrayLayer |-> 1]
    /\ Len(emitted) = 1
    /\ emitted[1].srcInit
    /\ ~isInit[<<"texB", 0, 0>>]

(***************************************************************************)
(* Properties of the transitions (SpecTrans).                              *)
(***************************************************************************)
\* The step that consumes a BeginRenderPass or BeginComputePass record.
BeginPassStep == ctx = "top" /\ ctx' \in {"render", "compute"}

\* The transitions of resource r among the instructions out: <<instruction,
\* position in its batch>>.
TransitionsOf(out, r) ==
    { p \in UNION { { <<k, j>> : j \in 1..Len(out[k].transitions) } :
                    k \in { n \in 1..Len(out) : out[n].op = "Barrier" } } :
          out[p[1]].transitions[p[2]].resource = r }

\* C10: when a pass is prepared, a resource of the usage summary gets no
\* transition if its tracked state is the required one and exactly one otherwise,
\* and its tracked state is the required one afterwards.
C10_TransitionMinimality ==
    [][ BeginPassStep =>
            LET usages == lastCmd'.usages
            IN  /\ \A i \in 1..Len(usages.buffers) :
                       /\ Cardinality(TransitionsOf(emitted', usages.buffers[i]))
                              = IF bufState[usages.buffers[i]] = usages.bufferUsages[i]
                                THEN 0 ELSE 1
                       /\ bufState'[usages.buffers[i]] = usages.bufferUsages[i]
                /\ \A i \in 1..Len(usages.textures) :
                       /\ Cardinality(TransitionsOf(emitted', usages.textures[i]))
                              = IF texState[usages.textures[i]] = usages.textureUsages[i]
                                THEN 0 ELSE 1
                       /\ texState'[usages.textures[i]] = usages.textureUsages[i] ]_vars

\* C10 witness: a compute pass over two buffers and a texture was prepared with
\* exactly one transition: the other two resources were in the required state.
C10_Witness ==
    /\ lastCmd.type = "BeginComputePass"
    /\ Len(lastCmd.usages.buffers) = 2
    /\ Len(lastCmd.usages.textures) = 1
    /\ Cardinality(UNION { TransitionsOf(emitted, r) : r \in {"bufA", "bufB", "texB"} }) = 1

(***************************************************************************)
(* Properties of the binding tracker (SpecBind).                           *)
(***************************************************************************)
ApplyStep == lastCmd'.type \in {"Draw", "Dispatch"}

BindingInstructions ==
    { "SetGraphicsRootDescriptorTable", "SetComputeRootDescriptorTable",
      "SetGraphicsRootConstantBufferView", "SetComputeRootConstantBufferView" }

IsFailedPopulate(e) == e.op = "Populate" /\ ~e.ok

\* The slots whose bind group is dirty or has a descriptor table bound.
DirtyOrBound ==
    mDirtyBindGroups \cup { i \in Slots : heap.tables[i] # "none" }

\* In out, after position k: the heaps are switched, then bound, then slot i is
\* realized with no binding instruction emitted in between.
RealizedAgain(out, k, i) ==
    /\ k + 2 <= Len(out)
    /\ out[k + 1].op = "AllocateAndSwitchShaderVisibleHeaps"
    /\ out[k + 2].op = "SetDescriptorHeaps"
    /\ \E j \in (k + 3)..Len(out) :
          /\ out[j].op = "Populate" /\ out[j].index = i /\ out[j].ok
          /\ \A m \in (k + 1)..j : out[m].op \notin BindingInstructions

NeedingTransition(usages) ==
    { usages.buffers[i] : i \in { j \in 1..Len(usages.buffers) :
                                      bufState[usages.buffers[j]] # usages.bufferUsages[j] } }
    \cup
    { usages.textures[i] : i \in { j \in 1..Len(usages.textures) :
                                       texState[usages.textures[j]] # usages.textureUsages[j] } }

BarriersOf(out) == { k \in 1..Len(out) : out[k].op = "Barrier" }

\* C11 (as claimed): the transitions a pass's usage summary requires are emitted
\* together as one barrier operation, not one per resource, before the pass
\* body; no barrier operation is emitted when no resource needs a transition.
C11_OneBarrierPerPass ==
    [][ BeginPassStep =>
            LET needed == NeedingTransition(lastCmd'.usages)
                bars == BarriersOf(emitted')
            IN  /\ needed = {} => bars = {}
                /\ needed # {} =>
                       /\ Cardinality(bars) = 1
                       /\ \A k \in bars :
                              { emitted'[k].transitions[j].resource :
                                    j \in 1..Len(emitted'[k].transitions) } = needed ]_vars

(***************************************************************************)
(* Properties of the resource states at the commands (SpecTrans).          *)
(***************************************************************************)
CopyInstructions ==
    { "CmdCopyBuffer", "CmdCopyBufferToImage", "CmdCopyImageToBuffer", "CmdCopyImage",
      "CopyBufferRegion", "CopyTextureRegion", "CopyResource" }

\* C12 (as claimed): when a recorded command reads or writes a buffer or a texture,
\* the tracked state of that resource is the state the command requires: a copy
\* is emitted with its source in the CopySrc state and its destination in the
\* CopyDst state, also when both are the same resource.
C12_ResourceStateAtCommand ==
    \A k \in 1..Len(emitted) :
        emitted[k].op \in CopyInstructions =>
            /\ emitted[k].srcState = {"CopySrc"}
            /\ emitted[k].dstState = {"CopyDst"}

(***************************************************************************)
(* Properties of the vertex and index buffer trackers (SpecDraw).          *)
(***************************************************************************)
\* A draw record of the d3d12 backend: the step that applies the trackers.
D3D12DrawStep == backend = "d3d12" /\ lastCmd'.type \in {"Draw", "DrawIndexed"}

\* The positions of the vertex buffer binds among the instructions of a handler.
VertexBinds(out) == { k \in 1..Len(out) : out[k].op = "IASetVertexBuffers" }

\* The slots a vertex buffer bind covers.
SlotsOfBind(instr) == instr.startSlot..(instr.startSlot + instr.count - 1)

\* C13: every Apply of the d3d12 vertex buffer tracker issues at most one bind; when
\* slots were set since the previous Apply it issues one bind whose contiguous
\* slot range covers every one of them; after Apply the dirty range is empty
\* (mStartSlot = kMaxVertexBuffers, mEndSlot = 0).
C13_DirtyRangeSoundness ==
    [][ D3D12DrawStep =>
            LET binds == VertexBinds(emitted')
            IN  /\ Cardinality(binds) <= 1
                /\ setSinceApply # {} =>
                       /\ Cardinality(binds) = 1
                       /\ \A k \in binds : setSinceApply \subseteq SlotsOfBind(emitted'[k])
                /\ mStartSlot' = kMaxVertexBuffers
                /\ mEndSlot' = 0 ]_vars

\* A d3d12 draw whose vertex buffer bind covers two slots or more, with the dirty
\* range empty afterwards.
C13_Witness ==
    /\ backend = "d3d12"
    /\ lastCmd.type = "Draw"
    /\ \E k \in VertexBinds(emitted) : emitted[k].count >= 2
    /\ mStartSlot = kMaxVertexBuffers
    /\ mEndSlot = 0

\* C14: when the pipeline of a d3d12 draw differs from the one the vertex buffer
\* tracker applied last, the bind of that draw covers every slot the pipeline
\* uses and each such slot is bound with the pipeline's stride; at every draw
\* every slot the current pipeline uses is natively bound with that pipeline's
\* stride.
C14_StrideOfCurrentPipeline ==
    [][ D3D12DrawStep =>
            LET used == PipelineTable[lastPipeline].slotsUsed
                binds == VertexBinds(emitted')
            IN  /\ (mLastAppliedRenderPipeline # lastPipeline /\ used # {}) =>
                       /\ binds # {}
                       /\ \A k \in binds : used \subseteq SlotsOfBind(emitted'[k])
                       /\ \A slot \in used :
                              mD3D12BufferViews'[slot].StrideInBytes =
                                  PipelineTable[lastPipeline].arrayStride[slot]
                /\ \A slot \in used :
                       /\ iaVertexBuffers'[slot] # Unbound
                       /\ iaVertexBuffers'[slot].StrideInBytes =
                              PipelineTable[lastPipeline].arrayStride[slot] ]_vars

\* A d3d12 draw with pipeline PB after slot 0 was bound with another stride: its
\* bind covers slots 0 to 2 and slot 0 carries the stride of PB.
C14_Witness ==
    /\ backend = "d3d12"
    /\ lastCmd.type = "Draw"
    /\ lastPipeline = "PB"
    /\ mLastAppliedRenderPipeline = "PB"
    /\ setSinceApply = {}
    /\ \E k \in VertexBinds(emitted) : emitted[k].startSlot = 0 /\ emitted[k].count = 3
    /\ iaVertexBuffers[0].StrideInBytes = PipelineTable["PB"].arrayStride[0]
    /\ iaVertexBuffers[2].StrideInBytes = PipelineTable["PB"].arrayStride[2]

\* An indexed draw record of the d3d12 backend: the step that applies the index
\* buffer tracker.
D3D12DrawIndexedStep == backend = "d3d12" /\ lastCmd'.type = "DrawIndexed"

\* The positions of the index buffer binds among the instructions of a handler.
IndexBinds(out) == { k \in 1..Len(out) : out[k].op = "IASetIndexBuffer" }

\* C15 (as claimed): the d3d12 index buffer tracker issues a bind only when the
\* current descriptor (buffer location, size, format) differs from the descriptor
\* applied last; otherwise it emits nothing.
C15_BindOnlyWhenDescriptorDiffers ==
    [][ D3D12DrawIndexedStep =>
            (IndexBinds(emitted') # {} => mD3D12BufferView # iaIndexBuffer) ]_vars

\* C15 (amended): the d3d12 index buffer tracker issues a bind exactly when the
\* format of the current descriptor differs from the last applied format, which
\* every SetIndexBuffer resets to unknown: it binds after a SetIndexBuffer (also
\* one that names the buffer and offset already bound) and after a change of
\* the index format; when it emits nothing the natively bound descriptor is the
\* current one; after Apply the natively bound descriptor is the current one.
C15_BindOnFormatDifference ==
    [][ D3D12DrawIndexedStep =>
            LET binds == IndexBinds(emitted')
            IN  /\ binds # {} <=> mD3D12BufferView.Format # mLastAppliedIndexFormat
                /\ Cardinality(binds) <= 1
                /\ binds # {} => \/ mLastAppliedIndexFormat = "DXGI_FORMAT_UNKNOWN"
                                 \/ mD3D12BufferView.Format # iaIndexBuffer.Format
                /\ binds = {} => iaIndexBuffer = mD3D12BufferView
                /\ iaIndexBuffer' = mD3D12BufferView
                /\ mLastAppliedIndexFormat' = mD3D12BufferView.Format ]_vars

\* A d3d12 indexed draw that emits no index buffer bind, the buffer bound at
\* offset 16 of bufA by an earlier draw.
C15_Witness ==
    /\ backend = "d3d12"
    /\ lastCmd.type = "DrawIndexed"
    /\ IndexBinds(emitted) = {}
    /\ iaIndexBuffer = mD3D12BufferView
    /\ iaIndexBuffer.BufferLocation = BufferTable["bufA"].va + 16
    /\ iaIndexBuffer.Format = "DXGI_FORMAT_R32_UINT"

\* An indexed draw record of either backend.
DrawIndexedStep == lastCmd'.type = "DrawIndexed"

\* The natively bound index buffer is the one of the latest SetIndexBuffer, with
\* the element format of the pipeline.
IndexBufferBoundAs(ia, set, pipeline) ==
    /\ ia # Unbound
    /\ IF backend = "d3d12"
       THEN /\ ia.BufferLocation = BufferTable[set.buffer].va + set.offset
            /\ ia.Format = DXGIIndexFormat(PipelineTable[pipeline].indexFormat)
       ELSE /\ ia.buffer = set.buffer
            /\ ia.offset = set.offset
            /\ ia.indexType = VulkanIndexType(PipelineTable[pipeline].indexFormat)

\* C16 (as claimed): at every indexed draw the natively bound index buffer has the
\* buffer and offset of the latest SetIndexBuffer and the element format of the
\* render pipeline bound at the draw, also when the pipeline was set after the
\* index buffer.
C16_IndexBufferAtIndexedDraw ==
    [][ DrawIndexedStep =>
            IndexBufferBoundAs(iaIndexBuffer', validated.indexBuffer, lastPipeline) ]_vars

(***************************************************************************)
(* Properties of the binding trackers at Apply (SpecBind).                 *)
(***************************************************************************)
\* The records whose handlers apply the binding tracker.
ApplyRecords == {"Draw", "DrawIndexed", "Dispatch"}

\* An Apply that follows an Apply with no record in between.
SecondApplyStep == lastCmd.type \in ApplyRecords /\ lastCmd'.type \in ApplyRecords

\* The instructions that realize descriptors, switch heaps or bind descriptors.
DescriptorInstructions ==
    BindingInstructions \cup
        { "Populate", "AllocateAndSwitchShaderVisibleHeaps", "SetDescriptorHeaps",
          "CmdBindDescriptorSets" }

\* C17: Apply of the binding tracker is idempotent: an Apply that follows an Apply
\* with no SetBindGroup and no SetPipeline in between realizes no descriptors,
\* emits no binding instruction and leaves all dirty bits clear.
C17_ApplyIdempotent ==
    [][ SecondApplyStep =>
            /\ \A k \in 1..Len(emitted') : emitted'[k].op \notin DescriptorInstructions
            /\ heap' = heap
            /\ mDirtyBindGroups' = {}
            /\ mDirtyBindGroupsObjectChangedOrIsDynamic' = {}
            /\ UNCHANGED <<mBindGroups, mDynamicOffsetCounts, mBindGroupLayoutsMask,
                           mPipelineLayout, mLastAppliedPipelineLayout>> ]_vars

\* A second draw in a row with a bind group with dynamic offsets in slot 0 and
\* both slots of the layout bound: only the draw is emitted.
C17_Witness ==
    /\ lastCmd.type = "Draw"
    /\ Len(emitted) = 1
    /\ mLastAppliedPipelineLayout = "L2"
    /\ mBindGroups[0] = "G3"
    /\ mBindGroups[1] = "G1"
    /\ mDirtyBindGroups = {}
    /\ mDirtyBindGroupsObjectChangedOrIsDynamic = {}

\* A d3d12 draw or dispatch that directly follows a SetBindGroup of the bind group
\* the tracker holds applied in that slot, nothing else being dirty.
SameGroupAgainStep ==
    /\ backend = "d3d12"
    /\ lastCmd.type = "SetBindGroup"
    /\ lastCmd'.type \in ApplyRecords
    /\ mLastAppliedPipelineLayout = mPipelineLayout
    /\ mDirtyBindGroups = {}
    /\ mDirtyBindGroupsObjectChangedOrIsDynamic \subseteq {lastCmd.index}

\* C18: SetBindGroup(i, G), draw, SetBindGroup(i, G) again, draw: the second Apply
\* realizes no descriptors and sets no descriptor table, and it sets the root
\* descriptors of the dynamic offsets of slot i again exactly when G has dynamic
\* offsets.
C18_SameGroupSetAgain ==
    [][ SameGroupAgainStep =>
            LET i == lastCmd.index
                G == lastCmd.group
                dynamic == { k \in 1..Len(emitted') :
                               emitted'[k].op \in { "SetGraphicsRootConstantBufferView",
                                                    "SetComputeRootConstantBufferView" } }
            IN  /\ mBindGroups[i] = G
                /\ \A k \in 1..Len(emitted') :
                       emitted'[k].op \notin
                           { "Populate", "AllocateAndSwitchShaderVisibleHeaps",
                             "SetDescriptorHeaps", "SetGraphicsRootDescriptorTable",
                             "SetComputeRootDescriptorTable" }
                /\ \A k \in dynamic : emitted'[k].index = i /\ emitted'[k].group = G
                /\ dynamic # {} <=> BindGroupTable[G].dynamicOffsetCount > 0
                /\ heap' = heap ]_vars

\* A d3d12 draw that only sets the root descriptor of the dynamic offsets of G3 in
\* slot 0 again: G3 was set again after a draw had applied it.
C18_Witness ==
    /\ backend = "d3d12"
    /\ lastCmd.type = "Draw"
    /\ Len(emitted) = 2
    /\ emitted[1] = [op |-> "SetGraphicsRootConstantBufferView", index |-> 0, group |-> "G3"]
    /\ emitted[2].op = "DrawInstanced"

\* An Apply of the d3d12 binding tracker.
D3D12ApplyStep == backend = "d3d12" /\ lastCmd'.type \in ApplyRecords

\* The positions in out of the Populate calls that reported exhaustion, and of
\* the heap switches.
FailedPopulates(out) == { k \in 1..Len(out) : IsFailedPopulate(out[k]) }
HeapSwitches(out) ==
    { k \in 1..Len(out) : out[k].op = "AllocateAndSwitchShaderVisibleHeaps" }

\* The instructions a draw or a dispatch ends with when Apply returned no error.
CommandInstructions == { "DrawInstanced", "DrawIndexedInstanced", "Dispatch" }

C20_TrackersInitialAtPassStart ==
    [][ BeginPassStep =>
            /\ mBindGroups' = NewTracker.groups
            /\ mDynamicOffsetCounts' = NewTracker.counts
            /\ mDirtyBindGroups' = {}
            /\ mDirtyBindGroupsObjectChangedOrIsDynamic' = {}
            /\ mPipelineLayout' = "null"
            /\ mLastAppliedPipelineLayout' = "null"
            /\ lastPipeline' = "null"
            /\ mLastAppliedRenderPipeline' = NewVertexBufferTracker.last
            /\ mStartSlot' = NewVertexBufferTracker.startSlot
            /\ mEndSlot' = NewVertexBufferTracker.endSlot
            /\ mLastAppliedIndexFormat' = NewIndexBufferTracker.lastFormat ]_vars

(***************************************************************************)
(* Properties of the order of the emitted instructions (SpecDraw).         *)
(***************************************************************************)
\* The ops of the instructions in out, in order.
OpsOf(out) == [ k \in 1..Len(out) |-> out[k].op ]

\* C21 (as claimed): native instructions are emitted in the order of the records
\* that cause them: a handler that runs after a record which emitted instructions
\* emits no instruction caused by a record before that one.  (On d3d12 a vertex
\* buffer bind for slots set since the last Apply is caused by SetVertexBuffer
\* records; SetVertexBuffer itself emits nothing there, so when the preceding
\* record emitted instructions the slots were set before it.)
C21_EmittedInRecordOrder ==
    [][ (backend = "d3d12" /\ ctx = "render" /\ lastCmd'.type \in ApplyRecords
            /\ emitted # << >> /\ setSinceApply # {})
            => VertexBinds(emitted') = {} ]_vars

\* The place of an instruction among the instructions of a draw handler.
DrawHandlerRank(op) ==
    IF op \in DescriptorInstructions \cup {"Barrier"} THEN 1
    ELSE IF op = "IASetIndexBuffer" THEN 2
    ELSE IF op = "IASetVertexBuffers" THEN 3
    ELSE IF op \in CommandInstructions \cup {"CmdDraw", "CmdDrawIndexed", "CmdDispatch"}
         THEN 4
    ELSE 0

\* C21 (amended): every handler emits its instructions before the handler of the
\* next record emits any.  SetPipeline emits the pipeline instructions at its
\* record.  The vulkan SetVertexBuffer and SetIndexBuffer emit their bind at
\* their record; the d3d12 SetVertexBuffer and SetIndexBuffer and the
\* SetBindGroup of both backends emit nothing at their record: their binds are
\* emitted by the next draw or dispatch, in the order bind groups (with the
\* storage buffer transitions of a compute pass), index buffer, vertex buffers,
\* before the draw or dispatch instruction, which is the last of its handler.
C21_DeferredBindsBeforeDraw ==
    [][ /\ lastCmd'.type \in ApplyRecords =>
               LET out == emitted'
               IN  /\ out # << >>
                   /\ DrawHandlerRank(out[Len(out)].op) = 4
                   /\ \A k \in 1..Len(out) :
                          /\ DrawHandlerRank(out[k].op) > 0
                          /\ k < Len(out) =>
                                 /\ DrawHandlerRank(out[k].op) < 4
                                 /\ DrawHandlerRank(out[k].op) <= DrawHandlerRank(out[k + 1].op)
        /\ lastCmd'.type = "SetBindGroup" => emitted' = << >>
        /\ lastCmd'.type = "SetVertexBuffer" =>
               OpsOf(emitted') = IF backend = "d3d12" THEN << >>
                                 ELSE << "CmdBindVertexBuffers" >>
        /\ lastCmd'.type = "SetIndexBuffer" =>
               OpsOf(emitted') = IF backend = "d3d12" THEN << >>
                                 ELSE << "CmdBindIndexBuffer" >>
        /\ (lastCmd'.type = "SetPipeline" /\ ctx = "render") =>
               OpsOf(emitted') = IF backend = "d3d12"
                                 THEN << "SetGraphicsRootSignature", "SetPipelineState",
                                         "IASetPrimitiveTopology" >>
                                 ELSE << "CmdBindPipeline" >> ]_vars

\* A d3d12 indexed draw that emits the index buffer bind, the vertex buffer bind
\* and the draw, in this order.
C21_Witness ==
    /\ backend = "d3d12"
    /\ lastCmd.type = "DrawIndexed"
    /\ OpsOf(emitted) = << "IASetIndexBuffer", "IASetVertexBuffers", "DrawIndexedInstanced" >>

(***************************************************************************)
(* Properties of the record loops (SpecStream, SpecAccel).                 *)
(***************************************************************************)
\* C22: a record whose tag has no arm in the loop that reads it (the top-level
\* loop, a pass loop, a bundle replay) makes the recording fail fatally at that
\* record: the handler emits nothing, does not go on to the next record, and
\* the recording stays failed.
C22_StrayRecordIsFatal ==
    [][ /\ (returned = "recording" /\ lastCmd'.type \in StrayTags \ ArmsOf(backend, ctx))
            => (returned' = "fatal" /\ emitted' = << >>)
        /\ returned = "fatal"
            => (returned' = "fatal" \/ lastCmd'.type = "RecordCommands") ]_vars

C22_Witness ==
    /\ returned = "fatal"
    /\ ctx = "compute"
    /\ lastCmd.type = "Draw"

\* C23: a pass loop is left only by the End record of its pass, and a stream
\* that ends while a pass is open makes the recording fail fatally: it never
\* returns success.
C23_OpenPassAtEndOfStreamIsFatal ==
    [][ /\ (ctx \in {"compute", "render", "raytracing"} /\ ctx' = "top")
            => lastCmd'.type \in {"EndComputePass", "EndRenderPass", "EndRayTracingPass"}
        /\ (ctx \in {"compute", "render", "raytracing"} /\ lastCmd'.type = "EndOfStream")
            => returned' = "fatal" ]_vars

\* C24: a Build of a container that is already built, an Update of a container
\* whose flags do not allow updates and an Update of a container that is not
\* built each make RecordCommands return a validation error, and the handler
\* of that record emits no build or update instruction.
C24_ContainerValidation ==
    [][ (returned = "recording" /\ ctx = "top"
            /\ lastCmd'.type \in {"BuildRayTracingAccelerationContainer",
                                  "UpdateRayTracingAccelerationContainer"}
            /\ IF lastCmd'.type = "BuildRayTracingAccelerationContainer"
               THEN containers[lastCmd'.container].built
               ELSE \/ ~ContainerTable[lastCmd'.container].allowUpdate
                    \/ ~containers[lastCmd'.container].built)
            => /\ returned' = "error"
               /\ \A k \in 1..Len(emitted') :
                      emitted'[k].op # "CmdBuildAccelerationStructureNV" ]_vars

C24_Witness ==
    /\ returned = "error"
    /\ lastCmd.type = "BuildRayTracingAccelerationContainer"
    /\ containers[lastCmd.container].built
    /\ containers["tlasFixed"].built
    /\ emitted = << >>

\* C25: an error is returned at once.  The step that yields it consumes its
\* record and nothing more, the instruction list ends where the failure
\* occurred, after it no record is consumed and no instruction is emitted
\* (only a new call of RecordCommands follows), and success is returned only
\* when the end of the stream has been read.
C25_ErrorReturnedAtOnce ==
    [][ /\ returned = "error" => lastCmd'.type = "RecordCommands"
        /\ (returned = "recording" /\ returned' = "error")
            => /\ cursor' = NextCommand(NextCommandId(cursor))
               /\ \/ emitted' = << >>
                  \/ emitted'[Len(emitted')] = [op |-> "CreateFramebuffer", failed |-> TRUE]
        /\ (returned = "recording" /\ returned' = "success")
            => lastCmd'.type = "EndOfStream" ]_vars

C25_Witness ==
    /\ returned = "error"
    /\ lastCmd.type = "UpdateRayTracingAccelerationContainer"
    /\ cursor = 4
    /\ containers["blas"].built

\* The clears issued by the preparation of a pass, as positions in the
\* instructions of a handler.
PassClears(out) ==
    { k \in 1..Len(out) : out[k].op = "ClearTexture" /\ out[k].site = "pass" }

\* C26: when a pass is opened, every texture of the pass's usage summary whose
\* usage has no OutputAttachment is initialized over all its mip levels and
\* array layers before the pass body (cleared by the pass preparation if it
\* was not), and the pass preparation clears no texture whose usage has
\* OutputAttachment.
C26_PassTexturesEnsured ==
    [][ (ctx = "top" /\ lastCmd'.type \in {"BeginRenderPass", "BeginComputePass",
                                           "BeginRayTracingPass"})
            => \A i \in 1..Len(lastCmd'.usages.textures) :
                  LET t == lastCmd'.usages.textures[i]
                  IN  IF "OutputAttachment" \notin lastCmd'.usages.textureUsages[i]
                      THEN /\ IsSubresourceContentInitialized(
                                  isInit', t, 0, GetNumMipLevels(t), 0, GetArrayLayers(t))
                           /\ ~IsSubresourceContentInitialized(
                                  isInit, t, 0, GetNumMipLevels(t), 0, GetArrayLayers(t))
                              => \E k \in PassClears(emitted') :
                                     /\ emitted'[k].texture = t
                                     /\ emitted'[k].baseMip = 0
                                     /\ emitted'[k].levelCount = GetNumMipLevels(t)
                                     /\ emitted'[k].baseLayer = 0
                                     /\ emitted'[k].layerCount = GetArrayLayers(t)
                      ELSE \A k \in PassClears(emitted') : emitted'[k].texture # t ]_vars

\* A render pass was opened whose preparation cleared a texture the pass reads.
C26_Witness ==
    /\ lastCmd.type = "BeginRenderPass"
    /\ PassClears(emitted) # {}
    /\ \E i \in 1..Len(lastCmd.usages.textures) :
           /\ "OutputAttachment" \in lastCmd.usages.textureUsages[i]
           /\ \E k \in 1..Len(emitted) :
                  emitted[k].op = "CmdBeginRenderPass" \/ emitted[k].op = "OMSetRenderTargets"
                      \/ emitted[k].op = "BeginRenderPass"

\* The barriers among the instructions of a handler that bring buffer b to the
\* Storage usage.
StorageBarriers(out, b) ==
    { k \in 1..Len(out) :
          /\ out[k].op = "Barrier"
          /\ \E n \in 1..Len(out[k].transitions) :
                 /\ out[k].transitions[n].resource = b
                 /\ out[k].transitions[n].after = {"Storage"} }

\* The storage buffers of the bind groups in the slots of the current layout.
BoundStorageBuffers ==
    UNION { BindGroupTable[mBindGroups[i]].storageBuffers :
                i \in { j \in mBindGroupLayoutsMask : mBindGroups[j] # "null" } }

\* The storage buffers of the bind groups in the slots flagged since the last
\* Apply.
NewlyFlaggedStorageBuffers ==
    UNION { BindGroupTable[mBindGroups[i]].storageBuffers :
                i \in { j \in mBindGroupLayoutsMask
                               \cap (mDirtyBindGroups
                                     \cup mDirtyBindGroupsObjectChangedOrIsDynamic) :
                            mBindGroups[j] # "null" } }

C28_PassesUseTheirUsageEntry ==
    [][ /\ (returned = "recording" /\ ctx = "top"
                /\ lastCmd'.type \in {"BeginRenderPass", "BeginComputePass",
                                      "BeginRayTracingPass"})
            => lastCmd'.usages =
                   PassResourceUsages(passesOpened,
                                      IF lastCmd'.type = "BeginRenderPass"
                                      THEN AttachmentTextures(lastCmd'.cmd) ELSE {})
        /\ (lastCmd'.type \in {"EndRenderPass", "EndComputePass", "EndRayTracingPass"}
                /\ ctx # "top" /\ ctx' = "top")
            => nextPassNumber' = nextPassNumber + 1
        /\ (ctx = "top" /\ lastCmd'.type # "RecordCommands")
            => nextPassNumber' = nextPassNumber ]_vars

\* The second pass of a stream has been opened with entry 1 of the list, the
\* first one is closed.
C28_Witness ==
    /\ lastCmd.type \in {"BeginRenderPass", "BeginComputePass"}
    /\ returned = "recording"
    /\ passesOpened = 2
    /\ nextPassNumber = 1
    /\ lastCmd.usages.textures # << >>

\* C29: every arm reads exactly its record: the struct and all of the inline
\* data that follows it (the dynamic offsets of a SetBindGroup that has some,
\* the label of length + 1 of a debug record, the bundle references), so
\* whenever the loop reads the next tag the iterator is at the end of the
\* records read so far, with the debug facility present or absent.
C29_CursorAtRecordBoundary ==
    returned = "recording" => cursor = recordEnd

\* vulkan without the debug marker extension has skipped a labelled debug
\* record that followed a SetBindGroup with a dynamic offset.
C29_Witness ==
    /\ backend = "vulkan"
    /\ ~debugMarker
    /\ returned = "recording"
    /\ lastCmd.type = "PushDebugGroup"
    /\ lastCmd.length = 1
    /\ mBindGroups[0] = "G3"
    /\ cursor = 9
    /\ cursor = recordEnd

\* The positions of the instructions named op among the instructions of a
\* handler.
InstructionsNamed(out, op) == { k \in 1..Len(out) : out[k].op = op }

\* C30: a vulkan render pass that is recorded creates exactly one framebuffer
\* and hands it to the fenced deleter exactly once, after its creation and
\* before CmdBeginRenderPass; no handler destroys a framebuffer itself, and no
\* other handler creates or hands over one.
C30_FramebufferDeferredDeletion ==
    [][ backend = "vulkan" =>
            LET created == InstructionsNamed(emitted', "CreateFramebuffer")
                deferred == InstructionsNamed(emitted', "DeleteWhenUnused")
                begun == InstructionsNamed(emitted', "CmdBeginRenderPass")
            IN  /\ InstructionsNamed(emitted', "DestroyFramebuffer") = {}
                /\ IF lastCmd'.type = "BeginRenderPass" /\ returned' = "recording"
                   THEN /\ Cardinality(created) = 1
                        /\ Cardinality(deferred) = 1
                        /\ Cardinality(begun) = 1
                        /\ \A c \in created : \A d \in deferred : \A b \in begun :
                               /\ c < d
                               /\ d < b
                               /\ emitted'[d].object = "framebuffer"
                   ELSE deferred = {} /\ begun = {} ]_vars

\* A vulkan render pass has been opened and its framebuffer handed to the
\* fenced deleter.
C30_Witness ==
    /\ backend = "vulkan"
    /\ ctx = "render"
    /\ lastCmd.type = "BeginRenderPass"
    /\ InstructionsNamed(emitted, "DeleteWhenUnused") # {}

(***************************************************************************)
(* Properties of the d3d12 render pass (SpecPass).                         *)
(***************************************************************************)
\* The step in which the EndRenderPass record of a d3d12 pass is consumed:
\* renderPass holds the pass that ends.
D3D12EndRenderPassStep == backend = "d3d12" /\ ctx = "render" /\ ctx' = "top"

\* The explicit resolves among the instructions of a handler whose source is
\* the view given.
ResolvesOf(out, view) ==
    { k \in InstructionsNamed(out, "ResolveSubresource") : out[k].src = view }

\* C31: when the native render pass is not used, EndRenderPass issues one
\* ResolveSubresource for each colour attachment that declares a resolve
\* target, into that target, and none for an attachment without one, and no
\* native EndRenderPass; when the native pass is used it issues exactly one
\* native EndRenderPass and no ResolveSubresource.
C31_ResolvePerResolveTarget ==
    [][ D3D12EndRenderPassStep =>
            LET atts == renderPass.colorAttachments
                resolves == InstructionsNamed(emitted', "ResolveSubresource")
                ends == InstructionsNamed(emitted', "EndRenderPass")
            IN  IF useRenderPass
                THEN Cardinality(ends) = 1 /\ resolves = {}
                ELSE /\ ends = {}
                     /\ \A i \in 1..Len(atts) :
                            IF atts[i].resolveTarget # NoView
                            THEN /\ Cardinality(ResolvesOf(emitted', atts[i].view)) = 1
                                 /\ \A k \in ResolvesOf(emitted', atts[i].view) :
                                        emitted'[k].dst = atts[i].resolveTarget
                            ELSE ResolvesOf(emitted', atts[i].view) = {}
                     /\ Cardinality(resolves)
                            = Cardinality({ i \in 1..Len(atts) :
                                                atts[i].resolveTarget # NoView }) ]_vars

\* An emulated d3d12 pass has ended with exactly one resolve: under
\* SpecAttachments, a pass of two colour attachments of which one declares a
\* resolve target.
C31_Witness ==
    /\ backend = "d3d12"
    /\ ~useRenderPass
    /\ ctx = "top"
    /\ lastCmd.type = "EndRenderPass"
    /\ Cardinality(InstructionsNamed(emitted, "ResolveSubresource")) = 1

\* The step in which a d3d12 pass begins without the native render pass:
\* nativePass' holds the beginning accesses the RenderPassBuilder was given.
EmulatedBeginStep ==
    backend = "d3d12" /\ ~useRenderPass /\ ctx = "top" /\ ctx' = "render"

\* The aspects of the depth/stencil attachment whose beginning access is Clear.
AspectsToClear(native) ==
    IF Len(native.depthStencil) = 0 THEN {}
    ELSE (IF native.depthStencil[1].depthLoadOp = "Clear" THEN {"DEPTH"} ELSE {})
         \cup (IF native.depthStencil[1].stencilLoadOp = "Clear" THEN {"STENCIL"} ELSE {})

\* C32: the emulated begin of a pass issues a ClearRenderTargetView for exactly
\* the colour attachments whose beginning access is Clear, at most one
\* ClearDepthStencilView, whose flags are exactly the aspects whose beginning
\* access is Clear (none when there is no such aspect), and exactly one
\* OMSetRenderTargets, after every clear.
C32_EmulatedClearsThenBind ==
    [][ EmulatedBeginStep =>
            LET native == nativePass'
                colorClears == InstructionsNamed(emitted', "ClearRenderTargetView")
                dsClears == InstructionsNamed(emitted', "ClearDepthStencilView")
                binds == InstructionsNamed(emitted', "OMSetRenderTargets")
                clearsOf(i) == { k \in colorClears : emitted'[k].view = native.color[i].view }
            IN  /\ \A i \in 1..Len(native.color) :
                       IF native.color[i].loadOp = "Clear"
                       THEN /\ Cardinality(clearsOf(i)) = 1
                            /\ \A k \in clearsOf(i) :
                                   emitted'[k].value = native.color[i].clearValue
                       ELSE clearsOf(i) = {}
                /\ colorClears = UNION { clearsOf(i) : i \in 1..Len(native.color) }
                /\ IF AspectsToClear(native) = {} THEN dsClears = {}
                   ELSE /\ Cardinality(dsClears) = 1
                        /\ \A k \in dsClears :
                               /\ emitted'[k].clearFlags = AspectsToClear(native)
                               /\ emitted'[k].view = native.depthStencil[1].view
                /\ Cardinality(binds) = 1
                /\ \A b \in binds : \A k \in colorClears \cup dsClears : k < b ]_vars

\* An emulated pass has begun with one colour attachment cleared, the other
\* loaded, and depth and stencil cleared in one call.
C32_Witness ==
    /\ backend = "d3d12"
    /\ ~useRenderPass
    /\ ctx = "render"
    /\ lastCmd.type = "BeginRenderPass"
    /\ Len(nativePass.color) = 2
    /\ nativePass.color[1].loadOp = "Clear"
    /\ nativePass.color[2].loadOp = "Load"
    /\ Cardinality(InstructionsNamed(emitted, "ClearRenderTargetView")) = 1
    /\ \E k \in InstructionsNamed(emitted, "ClearDepthStencilView") :
           emitted[k].clearFlags = {"DEPTH", "STENCIL"}

(***************************************************************************)
(* Properties of the acceleration containers (SpecAccel).                  *)
(***************************************************************************)
\* The top-level build and update instructions among the instructions of a
\* handler.
TopLevelBuilds(out) ==
    { k \in InstructionsNamed(out, "CmdBuildAccelerationStructureNV") :
          out[k].level = "Top" }

\* C33: within one recording, every top-level build or update instruction that
\* follows a bottom-level build or update has a memory barrier between the
\* two: when a bottom-level build or update of the recording has had no
\* barrier after it, the handler of a top-level Build or Update record emits a
\* barrier before its build instruction.
C33_BarrierBetweenBottomAndTop ==
    [][ bottomLevelPending =>
            \A k \in TopLevelBuilds(emitted') :
                \E b \in InstructionsNamed(emitted', "CmdPipelineBarrier") : b < k ]_vars

\* The build (update = FALSE) or update (update = TRUE) instructions of
\* container c among the instructions of a handler.
BuildsOf(out, c, update) ==
    { k \in InstructionsNamed(out, "CmdBuildAccelerationStructureNV") :
          out[k].container = c /\ out[k].update = update }

\* The step is the handler of an Update record of container c that was
\* accepted.
AcceptedUpdate(c) ==
    /\ ctx = "top"
    /\ returned = "recording"
    /\ lastCmd'.type = "UpdateRayTracingAccelerationContainer"
    /\ lastCmd'.container = c
    /\ returned' = "recording"

\* C34: over any sequence of Build and Update records, across recordings: a
\* container is built at most once (a build instruction is emitted only for a
\* container that is not built, which is built from then on), IsUpdated
\* implies IsBuilt, every update instruction targets a built container that
\* allows updates, and the scratch build memory is destroyed only once, in
\* the first accepted Update of the container, and only when it is built.
C34_ContainerLifecycle ==
    [][ \A c \in Containers :
            /\ containers[c].built => containers'[c].built
            /\ containers[c].updated => containers'[c].updated
            /\ ~containers[c].scratchBuild => ~containers'[c].scratchBuild
            /\ containers'[c].updated => containers'[c].built
            /\ BuildsOf(emitted', c, FALSE) # {} =>
                   /\ Cardinality(BuildsOf(emitted', c, FALSE)) = 1
                   /\ ~containers[c].built
                   /\ containers'[c].built
            /\ BuildsOf(emitted', c, TRUE) # {} =>
                   /\ containers[c].built
                   /\ ContainerTable[c].allowUpdate
            /\ (containers[c].scratchBuild /\ ~containers'[c].scratchBuild)
                   <=> (AcceptedUpdate(c) /\ ~containers[c].updated)
            /\ ~containers'[c].scratchBuild => containers'[c].built ]_vars

\* The first record of a recording has updated a container that an earlier
\* recording built; its scratch build memory is gone, and another container
\* has been updated as well.
C34_Witness ==
    /\ lastCmd.type = "UpdateRayTracingAccelerationContainer"
    /\ lastCmd.container = "blas"
    /\ returned = "recording"
    /\ recordEnd = 2
    /\ containers["blas"].updated
    /\ ~containers["blas"].scratchBuild
    /\ containers["tlas"].updated

\* The step is the handler of a Build or Update record of container c that
\* returned a validation error.
RejectedContainerRecord(c) ==
    /\ ctx = "top"
    /\ returned = "recording"
    /\ lastCmd'.type \in {"BuildRayTracingAccelerationContainer",
                          "UpdateRayTracingAccelerationContainer"}
    /\ lastCmd'.container = c
    /\ returned' = "error"

\* C35: a rejected Build or Update record leaves the built flag, the updated
\* flag and the scratch memory of its container (and of every other one)
\* unchanged; an Update of a container that neither allows updates nor is built
\* is rejected with the error of the missing update support.
C35_RejectedRecordChangesNothing ==
    [][ \A c \in Containers :
            /\ RejectedContainerRecord(c) => containers' = containers
            /\ ( /\ ctx = "top"
                 /\ returned = "recording"
                 /\ lastCmd'.type = "UpdateRayTracingAccelerationContainer"
                 /\ lastCmd'.container = c
                 /\ ~ContainerTable[c].allowUpdate
                 /\ ~containers[c].built )
               => /\ returned' = "error"
                  /\ validationError'
                         = "Acceleration Container does not support Updates" ]_vars

\* An Update of a container that neither allows updates nor is built has been
\* rejected.
C35_Witness ==
    /\ returned = "error"
    /\ lastCmd.type = "UpdateRayTracingAccelerationContainer"
    /\ lastCmd.container = "tlasFixed"
    /\ ~containers["tlasFixed"].built
    /\ validationError = "Acceleration Container does not support Updates"

(***************************************************************************)
(* Properties of the d3d12 descriptor heaps (SpecHeaps).                   *)
(***************************************************************************)
\* The positions where a root descriptor table is set.
RootDescriptorTables(out) ==
    InstructionsNamed(out, "SetComputeRootDescriptorTable")
        \cup InstructionsNamed(out, "SetGraphicsRootDescriptorTable")

\* C36: in d3d12 the entry of RecordCommands binds the shader-visible heaps to
\* the command list, once and before any record is handled; any other handler
\* switches the heaps at most once, binds the heaps right after the switch and
\* at no other time, and sets every root descriptor table after that, from
\* descriptors of the heaps bound.
C36_HeapsBoundBeforeTables ==
    [][ backend = "d3d12" =>
            LET out == emitted'
                heaps == InstructionsNamed(out, "SetDescriptorHeaps")
                switches == HeapSwitches(out)
                tables == RootDescriptorTables(out)
            IN  /\ lastCmd.type = "none" => emitted = << [op |-> "SetDescriptorHeaps"] >>
                /\ lastCmd'.type = "RecordCommands" =>
                       out = << [op |-> "SetDescriptorHeaps"] >>
                /\ lastCmd'.type # "RecordCommands" =>
                       /\ Cardinality(switches) <= 1
                       /\ \A s \in switches : s + 1 \in heaps
                       /\ \A h \in heaps : h - 1 \in switches
                       /\ \A s \in switches : \A t \in tables :
                              \E h \in heaps : s < h /\ h < t
                       /\ \A t \in tables : out[t].descriptors = "current" ]_vars

\* An Apply has switched the heaps, bound the new ones and set a root
\* descriptor table after that.
C36_Witness ==
    /\ backend = "d3d12"
    /\ returned = "recording"
    /\ heap.used > 0
    /\ HeapSwitches(emitted) # {}
    /\ RootDescriptorTables(emitted) # {}
    /\ \E h \in InstructionsNamed(emitted, "SetDescriptorHeaps") :
           \A t \in RootDescriptorTables(emitted) : h < t

(***************************************************************************)
(* Properties of the d3d12 root bindings (SpecRoots).                      *)
(***************************************************************************)
GraphicsRootInstructions ==
    { "SetGraphicsRootDescriptorTable", "SetGraphicsRootConstantBufferView" }
ComputeRootInstructions ==
    { "SetComputeRootDescriptorTable", "SetComputeRootConstantBufferView" }

\* C37: in d3d12, at every Apply (draw or dispatch) the compute flag of the
\* tracker tells the kind of the pass recorded: in a compute pass no binding
\* goes to the graphics root, in a render pass none goes to the compute root
\* and the Apply transitions no storage buffer.
C37_ComputeFlagIsPassKind ==
    [][ (backend = "d3d12" /\ lastCmd'.type \in ApplyRecords) =>
            /\ mInCompute = (ctx = "compute")
            /\ ctx = "compute" =>
                   \A k \in 1..Len(emitted') : emitted'[k].op \notin GraphicsRootInstructions
            /\ ctx = "render" =>
                   /\ \A k \in 1..Len(emitted') :
                          emitted'[k].op \notin ComputeRootInstructions
                   /\ \A b \in DOMAIN bufState : StorageBarriers(emitted', b) = {} ]_vars

\* A draw in a render pass has set a graphics root descriptor table while the
\* bind group of the storage buffer is bound and the buffer is in the Uniform
\* usage: its Apply has left the buffer there.
C37_Witness ==
    /\ backend = "d3d12"
    /\ ctx = "render"
    /\ lastCmd.type = "Draw"
    /\ mLastAppliedPipelineLayout # "null"
    /\ \E i \in Slots : mBindGroups[i] = "G1"
    /\ bufState["bufA"] = {"Uniform"}
    /\ \E k \in 1..Len(emitted) : emitted[k].op = "SetGraphicsRootDescriptorTable"

(***************************************************************************)
(* Properties of ExecuteBundles (SpecBundles).                             *)
(***************************************************************************)
\* Every record of every bundle of the list, from bundle i on, in order.
RECURSIVE FullReplay(_, _)
FullReplay(bundles, i) ==
    IF i > Len(bundles) THEN << >>
    ELSE [ n \in 1..Len(BundleTable[bundles[i]]) |-> <<bundles[i], n>> ]
         \o FullReplay(bundles, i + 1)

\* C38: ExecuteBundles replays each listed bundle from its first record to its
\* last, in list order, every time the bundle is listed; each replayed record
\* is handled by its arm over the trackers of the pass; the replay does not
\* move the iterator of the pass, which resumes with the record after
\* ExecuteBundles.
C38_BundlesReplayedInFull ==
    [][ ctx = "bundle" =>
            /\ cursor' = cursor
            /\ ctx' = "render" =>
                   /\ replayed = FullReplay(executing, 1)
                   /\ cursor' = recordEnd'
                   /\ returned' = "recording"
            /\ replayed' # replayed /\ replayed' # << >> =>
                   LET done == replayed'[Len(replayed')]
                       rec == BundleTable[done[1]][done[2]]
                   IN  /\ replayed' = SubSeq(FullReplay(executing, 1), 1, Len(replayed'))
                       /\ lastCmd'.type = rec.type
                       /\ rec.type = "SetBindGroup" =>
                              mBindGroups'[rec.index] = rec.group
                       /\ rec.type = "SetPipeline" => lastPipeline' = rec.pipeline
                       /\ rec.type = "Draw" =>
                              emitted'[Len(emitted')].op \in {"CmdDraw", "DrawInstanced"} ]_vars

\* The second ExecuteBundles record of a pass has replayed the bundle B1 twice,
\* in full each time, after the first record had replayed it already.
C38_Witness ==
    /\ ctx = "bundle"
    /\ executing = << "B1", "B1" >>
    /\ bundlesLeft = 1
    /\ replayed = FullReplay(executing, 1)
    /\ Len(replayed) = 8
    /\ recordEnd = 9
    /\ lastCmd.type = "Draw"

(***************************************************************************)
(* C39: vulkan texture-to-texture copy, direct and through a temporary     *)
(* buffer.                                                                 *)
(***************************************************************************)
TextureToTextureStep == backend = "vulkan" /\ lastCmd'.type = "CopyTextureToTexture"

\* The instructions of the temporary-buffer path, in the order of the path.
TemporaryBufferPath(out) ==
    \E i \in 1..Len(out) :
        /\ i + 4 = Len(out)
        /\ out[i] = [op |-> "Barrier", transitions |->
                        << [resource |-> "tempBuffer", before |-> {},
                            after |-> {"CopyDst"}] >>]
        /\ out[i + 1].op = "CmdCopyImageToBuffer"
        /\ out[i + 1].dst = "tempBuffer" /\ out[i + 1].dstState = {"CopyDst"}
        /\ out[i + 2] = [op |-> "Barrier", transitions |->
                            << [resource |-> "tempBuffer", before |-> {"CopyDst"},
                                after |-> {"CopySrc"}] >>]
        /\ out[i + 3].op = "CmdCopyBufferToImage"
        /\ out[i + 3].src = "tempBuffer" /\ out[i + 3].srcState = {"CopySrc"}
        /\ out[i + 4] = [op |-> "tempBuffers.emplace_back", buffer |-> "tempBuffer"]

\* C39: a vulkan texture-to-texture copy emits the direct image copy only when the
\* source and destination copy extents agree, so the assertion of
\* ComputeImageCopyRegion holds; it takes the temporary-buffer path exactly when the
\* toggle is enabled, the format is compressed and the extents differ, and in that
\* path the temporary buffer is in CopyDst for the image-to-buffer copy, in CopySrc
\* for the buffer-to-image copy, and is kept in the recording context.
C39_DirectCopyOnlyOnEqualExtents ==
    [][ TextureToTextureStep =>
          LET copy == lastCmd'.copy
              same == HasSameTextureCopyExtent(copy.source, copy.destination, copy.copySize)
              direct == InstructionsNamed(emitted', "CmdCopyImage")
              temporary == InstructionsNamed(emitted', "CmdCopyImageToBuffer")
          IN  /\ direct # {} => same /\ \A k \in direct : emitted'[k].asserted
              /\ temporary # {} <=> ( /\ useTemporaryBuffer
                                      /\ IsCompressed(copy.source.texture)
                                      /\ ~same )
              /\ temporary # {} => TemporaryBufferPath(emitted')
              /\ (direct # {}) # (temporary # {}) ]_vars

(***************************************************************************)
(* C40: the flag of a depth/stencil attachment and its two store ops.      *)
(***************************************************************************)
MixedStoreOps(att) == ~BothStore(att) /\ ~BothDiscard(att)

\* C40: a vulkan render pass sets the flag of its depth/stencil attachment valid
\* only when the depth and the stencil store operations are both Store, invalid
\* only when both are the discarding one, and leaves it as it was when they
\* differ; an attachment that was not initialized and has differing store
\* operations is still not initialized after the pass, although the load
\* operations it asked as Load were recorded as Clear.
C40_MixedStoreOpsKeepFlag ==
    [][ /\ (BeginRenderPassStep /\ backend = "vulkan") =>
            \A i \in 1..Len(lastCmd'.cmd.depthStencil) :
                LET att == lastCmd'.cmd.depthStencil[i]
                    before == ViewInitialized(isInit, att.view)
                    after == ViewInitialized(isInit', att.view)
                IN  /\ (after /\ ~before) => BothStore(att)
                    /\ (before /\ ~after) => BothDiscard(att)
                    /\ BothStore(att) => after
                    /\ BothDiscard(att) => ~after
                    /\ MixedStoreOps(att) => after = before
                    /\ (MixedStoreOps(att) /\ ~before) =>
                           /\ ~after
                           /\ (HasDepth(att.view.texture) /\ att.depthLoadOp = "Load") =>
                                  nativePass'.depthStencil[i].depthLoadOp = "Clear"
                           /\ (HasStencil(att.view.texture) /\ att.stencilLoadOp = "Load") =>
                                  nativePass'.depthStencil[i].stencilLoadOp = "Clear"
        /\ (backend = "vulkan" /\ ctx = "render") => isInit' = isInit ]_vars

\* C40 witness: an open vulkan pass over a depth/stencil attachment that was not
\* initialized, asked to load both aspects, stores the depth and discards the
\* stencil: both loads were recorded as Clear and the subresource is still not
\* initialized.
C40_Witness ==
    /\ backend = "vulkan"
    /\ ctx = "render"
    /\ Len(nativePass.depthStencil) = 1
    /\ ~nativePass.depthStencil[1].wasInit
    /\ nativePass.depthStencil[1].requestedDepthLoadOp = "Load"
    /\ nativePass.depthStencil[1].requestedStencilLoadOp = "Load"
    /\ nativePass.depthStencil[1].depthLoadOp = "Clear"
    /\ nativePass.depthStencil[1].stencilLoadOp = "Clear"
    /\ renderPass.depthStencil[1].depthStoreOp = "Store"
    /\ renderPass.depthStencil[1].stencilStoreOp = "Clear"
    /\ ~ViewInitialized(isInit, nativePass.depthStencil[1].view)











====
